---------------------------- MODULE Spec2Model ----------------------------
(***************************************************************************)
(* A model of recli, the reflection based generator of urfave/cli command  *)
(* trees (src/recli.go, src/unnamed/part_001 = utils.go,                   *)
(* src/unnamed/part_000 = README.md).                                      *)
(*                                                                         *)
(* The record the model builds commands for is the README's Config,       *)
(* widened by one field per scalar kind the claims speak about:           *)
(*                                                                         *)
(*   type Config struct {                                                  *)
(*       Flag     bool                                                     *)
(*       I8       int8                                                     *)
(*       I16      int16                                                    *)
(*       U8       uint8                                                    *)
(*       F32      float32                                                  *)
(*       F64      float64                                                  *)
(*       Address  string                                                   *)
(*       AuthMode AuthMode            // README: MarshalText/UnmarshalText *)
(*       EnvVars  map[string]string                                        *)
(*       Levels   map[int8]int8                                            *)
(*       Quota    map[string]uint8                                         *)
(*       Nums     []int8                                                   *)
(*       Backends []Backend                                                *)
(*   }                                                                     *)
(*   type Backend struct {                                                 *)
(*       Hostname         string `recli:"id"`                              *)
(*       Port             int    `default:"2019"`                          *)
(*       BackoffIntervals []int  `default:"10,20"`                         *)
(*   }                                                                     *)
(*                                                                         *)
(* A behaviour invokes the leaves of one field of Config (focus), and for   *)
(* Backends the leaves of the slice itself (list, add, add-json, delete of *)
(* an element) together with those of one field of its elements (part:     *)
(* hostname and port get and set; backoff-intervals list and add, and get, *)
(* set and delete of its elements). Or it calls                            *)
(* Construct once on a record of another shape (focus = "Construct": the   *)
(* operators of the Construct section build the whole command tree), or    *)
(* allocates and links records and calls setDefaults on them (focus =      *)
(* "Defaults", the types of src/utils_test.go), or applies the default     *)
(* FieldNameConverter to a name (focus = "Names"). The fields of Config    *)
(* start at their zero values; a map field starts nil or empty. A panic of *)
(* the Go code is the result "panic", after which the process runs nothing *)
(* more.                                                                   *)
(*                                                                         *)
(* Texts (command line arguments, printed values, field names) are         *)
(* sequences of one-character strings, so that parsing and formatting are  *)
(* computed character by character as strconv and fmt compute them.        *)
(***************************************************************************)
EXTENDS Integers, Sequences, FiniteSets, TLC

VARIABLES
    focus,   \* the field of Config whose leaves are invoked, or "Construct"
    part,    \* the field of the slice's elements whose leaves are invoked
    calls,   \* how many leaves of a slice inside an element were invoked
    rec,     \* the caller's record: scalar field name -> stored value
    maps,    \* the caller's record: map field name -> [nil, ents]
    heap,    \* backing arrays: id -> Seq(element), of the slice field in
             \* focus (ArrIds) and of the slices inside its elements (InnerIds)
    hdr,     \* slice header of the slice field in focus: [arr, len, cap]
    nodes,   \* element nodes built by the last Construct: Seq([arr, idx, sub])
    op,      \* the last invocation: [name, target, nargs, a1, a2, first]
    err,     \* what the last invocation returned
    out,     \* what the last invocation handed to the ValuePrinter
    ctree,   \* what the last Construct(item) returned: [err, path, cmds]
    mem,     \* the records setDefaults is called on: id -> [type, val]
    walk,    \* the records whose fields the last setDefaults went through
    cname    \* what the last call of the FieldNameConverter returned

vars == <<focus, part, calls, rec, maps, heap, hdr, nodes, op, err, out, ctree, mem, walk, cname>>

-----------------------------------------------------------------------------
(* Bounds of the model.                                                    *)

\* NArg of an invocation ranges over 0..MaxArgs.
MaxArgs == 2
\* Longest slice of scalars the model appends to (and the largest capacity
\* it tells apart).
MaxLen == 3
\* Longest slice of structs, as a field of Config and as input of Construct.
MaxItems == 2
\* Most invocations, in one behaviour, of leaves of a slice inside an element.
MaxCalls == 2

-----------------------------------------------------------------------------
(* Texts.                                                                  *)

DigitChars == <<"0", "1", "2", "3", "4", "5", "6", "7", "8", "9">>
UpperChars == <<"A", "B", "C", "D", "E", "F", "G", "H", "I", "J", "K", "L", "M",
                "N", "O", "P", "Q", "R", "S", "T", "U", "V", "W", "X", "Y", "Z">>
LowerChars == <<"a", "b", "c", "d", "e", "f", "g", "h", "i", "j", "k", "l", "m",
                "n", "o", "p", "q", "r", "s", "t", "u", "v", "w", "x", "y", "z">>

IndexOf(seq, c) ==
    IF \E i \in 1..Len(seq) : seq[i] = c
    THEN CHOOSE i \in 1..Len(seq) : seq[i] = c
    ELSE 0

Tail2(s) == SubSeq(s, 3, Len(s))

T_empty == << >>
T_true == <<"t", "r", "u", "e">>
T_1 == <<"1">>
T_0x10 == <<"0", "x", "1", "0">>
T_010 == <<"0", "1", "0">>
T_127 == <<"1", "2", "7">>
T_128 == <<"1", "2", "8">>
T_m129 == <<"-", "1", "2", "9">>
T_300 == <<"3", "0", "0">>
T_0p1 == <<"0", ".", "1">>
T_1p5 == <<"1", ".", "5">>
T_ldap == <<"l", "d", "a", "p">>
T_static == <<"s", "t", "a", "t", "i", "c">>
T_bogus == <<"b", "o", "g", "u", "s">>
T_false == <<"f", "a", "l", "s", "e">>
T_16 == <<"1", "6">>

\* The argument texts the invocations draw from.
Texts == {T_empty, T_true, T_1, T_0x10, T_010, T_127, T_128, T_m129, T_300,
          T_0p1, T_1p5, T_ldap, T_bogus}


-----------------------------------------------------------------------------
(* reflect.Kind, in the order of the reflect package: simplifyKind and     *)
(* isPrimitiveKind compare kinds by that order.                            *)

Kinds == <<"invalid", "bool", "int", "int8", "int16", "int32", "int64",
           "uint", "uint8", "uint16", "uint32", "uint64", "uintptr",
           "float32", "float64", "complex64", "complex128", "array", "chan",
           "func", "interface", "map", "ptr", "slice", "string", "struct",
           "unsafe.Pointer">>

Ord(k) == IndexOf(Kinds, k)

\* The kinds reflect.Value.Int, SetInt and OverflowInt accept; on any other
\* kind they panic with a *reflect.ValueError.
SignedKinds == {"int", "int8", "int16", "int32", "int64"}

\* Width in bits of a signed kind (int is 64 bits wide).
Bits(k) ==
    CASE k = "int8" -> 8
      [] k = "int16" -> 16
      [] OTHER -> 64

simplifyKind(k) ==
    IF Ord("int") <= Ord(k) /\ Ord(k) <= Ord("uintptr") THEN "int" ELSE k

isPrimitiveKind(k) ==
    (Ord("bool") <= Ord(k) /\ Ord(k) <= Ord("float64")) \/ k = "string"

\* A type: its kind and whether its pointer implements both
\* encoding.TextMarshaler and encoding.TextUnmarshaler (README's AuthMode).
Ty(k) == [kind |-> k, codec |-> FALSE]
AuthModeTy == [kind |-> "int", codec |-> TRUE]

\* isPrimitive of an addressable, exported value of type t.
isPrimitive(t) == isPrimitiveKind(t.kind) \/ t.codec

-----------------------------------------------------------------------------
(* strconv.                                                                *)

RECURSIVE Pow(_, _)
Pow(b, n) == IF n = 0 THEN 1 ELSE b * Pow(b, n - 1)

\* The value of digit character c as strconv.ParseUint reads it; 99 for a
\* character that is no digit or letter of the model's alphabet.
DigitVal(c) ==
    CASE IndexOf(DigitChars, c) > 0 -> IndexOf(DigitChars, c) - 1
      [] IndexOf(LowerChars, c) > 0 -> IndexOf(LowerChars, c) + 9
      [] IndexOf(UpperChars, c) > 0 -> IndexOf(UpperChars, c) + 9
      [] OTHER -> 99

\* The digit loop of ParseUint: -1 for a syntax error.
RECURSIVE ParseDigits(_, _, _)
ParseDigits(s, base, acc) ==
    IF s = << >> THEN acc
    ELSE IF DigitVal(Head(s)) >= base THEN -1
    ELSE ParseDigits(Tail(s), base, acc * base + DigitVal(Head(s)))

\* strconv.ParseUint(s, 0, 64): base 0 reads the base from the prefix.
ParseUint0(s) ==
    IF s = << >> THEN -1
    ELSE IF Head(s) = "0"
    THEN CASE Len(s) >= 3 /\ s[2] \in {"b", "B"} -> ParseDigits(Tail2(s), 2, 0)
           [] Len(s) >= 3 /\ s[2] \in {"o", "O"} -> ParseDigits(Tail2(s), 8, 0)
           [] Len(s) >= 3 /\ s[2] \in {"x", "X"} -> ParseDigits(Tail2(s), 16, 0)
           [] OTHER -> ParseDigits(Tail(s), 8, 0)
    ELSE ParseDigits(s, 10, 0)

\* strconv.ParseInt(s, 0, 0): [ok, n]. The 64-bit range error is out of the
\* reach of the model's texts, which have at most four digits.
ParseInt(s) ==
    IF s = << >> THEN [ok |-> FALSE, n |-> 0]
    ELSE LET neg == Head(s) = "-"
             body == IF Head(s) \in {"+", "-"} THEN Tail(s) ELSE s
             un == ParseUint0(body)
         IN  IF un < 0 THEN [ok |-> FALSE, n |-> 0]
             ELSE [ok |-> TRUE, n |-> IF neg THEN -un ELSE un]

\* strconv.ParseBool: [ok, b].
ParseBool(s) ==
    CASE s \in {<<"1">>, <<"t">>, <<"T">>, T_true, <<"T", "R", "U", "E">>,
                <<"T", "r", "u", "e">>} -> [ok |-> TRUE, b |-> TRUE]
      [] s \in {<<"0">>, <<"f">>, <<"F">>, T_false,
                <<"F", "A", "L", "S", "E">>, <<"F", "a", "l", "s", "e">>}
            -> [ok |-> TRUE, b |-> FALSE]
      [] OTHER -> [ok |-> FALSE, b |-> FALSE]

\* Decimal digits of n >= 0, as strconv.FormatInt(n, 10) writes them.
RECURSIVE FormatNat(_)
FormatNat(n) ==
    IF n < 10 THEN <<DigitChars[n + 1]>>
    ELSE FormatNat(n \div 10) \o <<DigitChars[(n % 10) + 1]>>

FormatInt(n) == IF n < 0 THEN <<"-">> \o FormatNat(-n) ELSE FormatNat(n)

FormatBool(b) == IF b THEN T_true ELSE T_false

(* Floating point. A float is the decimal m / 10^k, with r = TRUE when the *)
(* stored value is the float32 nearest to that decimal and differs from it *)
(* (SetFloat on a float32 stores float32(x)).                              *)

RECURSIVE NormDec(_, _)
NormDec(m, k) ==
    IF k > 0 /\ m % 10 = 0 THEN NormDec(m \div 10, k - 1)
    ELSE [m |-> m, k |-> k, r |-> FALSE]

FloatZero == [m |-> 0, k |-> 0, r |-> FALSE]

Abs(n) == IF n < 0 THEN -n ELSE n

\* strconv.ParseFloat(s, 0) on the decimal notation digits[.digits] with an
\* optional sign; every other text of the model is a syntax error (a hex
\* mantissa without a 'p' exponent such as 0x10 is one in strconv too).
ParseFloat(s) ==
    LET neg == s # << >> /\ Head(s) = "-"
        body == IF s # << >> /\ Head(s) \in {"+", "-"} THEN Tail(s) ELSE s
        dot == IndexOf(body, ".")
        ip == IF dot = 0 THEN body ELSE SubSeq(body, 1, dot - 1)
        fp == IF dot = 0 THEN << >> ELSE SubSeq(body, dot + 1, Len(body))
        ds == ip \o fp
        mant == ParseDigits(ds, 10, 0)
    IN  IF ds = << >> \/ mant < 0
        THEN [ok |-> FALSE, f |-> FloatZero]
        ELSE [ok |-> TRUE,
              f |-> NormDec(IF neg THEN -mant ELSE mant, Len(fp))]

\* Whether the decimal m / 10^k is a float32: its denominator is a power of
\* two and its numerator fits the 24-bit mantissa.
ExactInFloat32(f) ==
    /\ f.m % Pow(5, f.k) = 0
    /\ Abs(f.m) \div Pow(5, f.k) < Pow(2, 24)

\* float32(x), read back as a float64.
ToFloat32(f) == IF ExactInFloat32(f) THEN f ELSE [f EXCEPT !.r = TRUE]

\* fmt's %v of a float64 (strconv 'g', shortest). The shortest decimal of a
\* float32 that is not the decimal it was parsed from (0.1 prints
\* 0.10000000149011612) is written as that decimal followed by "~f32".
FormatFloat(f) ==
    LET a == Abs(f.m)
        ip == FormatNat(a \div Pow(10, f.k))
        fr == FormatNat(Pow(10, f.k) + (a % Pow(10, f.k)))
        txt == (IF f.m < 0 THEN <<"-">> ELSE << >>) \o ip
               \o (IF f.k = 0 THEN << >> ELSE <<".">> \o Tail(fr))
    IN  IF f.r THEN txt \o <<"~", "f", "3", "2">> ELSE txt

(* README's AuthMode: AuthModeStatic = 0, AuthModeLDAP = 1.                *)

\* func (t AuthMode) MarshalText(): [ok, text].
MarshalText(v) ==
    CASE v = 0 -> [ok |-> TRUE, text |-> T_static]
      [] v = 1 -> [ok |-> TRUE, text |-> T_ldap]
      [] OTHER -> [ok |-> FALSE, text |-> << >>]

\* func (t *AuthMode) UnmarshalText(bs): [ok, v].
UnmarshalText(bs) ==
    CASE bs = T_ldap -> [ok |-> TRUE, v |-> 1]
      [] bs = T_static -> [ok |-> TRUE, v |-> 0]
      [] OTHER -> [ok |-> FALSE, v |-> 0]


-----------------------------------------------------------------------------
(* The Scalar Codec: getPrimitiveValue, setPrimitiveValueFromString.       *)

\* x as SetInt stores it in a field of the given width: int8(x), int16(x).
\* Values of the model stay far inside the wider kinds.
Wrap(bits, x) ==
    IF bits > 16 THEN x
    ELSE ((x + Pow(2, bits - 1)) % Pow(2, bits)) - Pow(2, bits - 1)

\* reflect.Value.OverflowInt.
OverflowInt(bits, x) == x # Wrap(bits, x)

\* The zero value of a scalar type.
ZeroOf(t) ==
    CASE simplifyKind(t.kind) = "int" -> 0
      [] t.kind = "bool" -> FALSE
      [] t.kind \in {"float32", "float64"} -> FloatZero
      [] OTHER -> << >>

\* getPrimitiveValue(v), v of type t holding val; addr: v.CanAddr().
\* [err, text]: text is what fmt.Println prints of the returned interface{}.
getPrimitiveValue(t, val, addr) ==
    IF addr /\ t.codec
    THEN LET m == MarshalText(val)
         IN  [err |-> IF m.ok THEN "ok" ELSE "marshal", text |-> m.text]
    ELSE CASE simplifyKind(t.kind) = "bool"
                -> [err |-> "ok", text |-> FormatBool(val)]
           [] simplifyKind(t.kind) = "int"
                -> IF t.kind \in SignedKinds
                   THEN [err |-> "ok", text |-> FormatInt(val)]
                   ELSE [err |-> "panic", text |-> << >>]
           [] simplifyKind(t.kind) \in {"float32", "float64"}
                -> [err |-> "ok", text |-> FormatFloat(val)]
           [] simplifyKind(t.kind) = "string"
                -> [err |-> "ok", text |-> val]
           [] OTHER -> [err |-> "unsupported-kind", text |-> << >>]

\* A faulty setInt: SetInt before the OverflowInt check, so that a value
\* that overflows is stored, truncated, and the error returned after.
setInt_storesBeforeCheck(k, old, n) ==
    IF k \notin SignedKinds THEN [err |-> "panic", val |-> old]
    ELSE IF OverflowInt(Bits(k), n) THEN [err |-> "conversion", val |-> Wrap(Bits(k), n)]
    ELSE [err |-> "ok", val |-> Wrap(Bits(k), n)]

\* The reflect.Int case of setPrimitiveValueFromString once ParseInt has
\* returned n: OverflowInt, then SetInt (both panic on an unsigned kind).
setInt(k, old, n) ==
    IF k \notin SignedKinds THEN [err |-> "panic", val |-> old]
    ELSE IF OverflowInt(Bits(k), n) THEN [err |-> "conversion", val |-> old]
    ELSE [err |-> "ok", val |-> Wrap(Bits(k), n)]

\* setPrimitiveValueFromString(v, arg), v of type t holding old.
\* [err, val]: val is what v holds when the call returns (or panics).
setPrimitiveValueFromString(t, old, arg, addr) ==
    IF addr /\ t.codec
    THEN LET u == UnmarshalText(arg)
         IN  IF u.ok THEN [err |-> "ok", val |-> u.v]
             ELSE [err |-> "conversion", val |-> old]
    ELSE CASE simplifyKind(t.kind) = "bool"
                -> LET cv == ParseBool(arg)
                   IN  IF ~cv.ok THEN [err |-> "conversion", val |-> old]
                       ELSE [err |-> "ok", val |-> cv.b]
           [] simplifyKind(t.kind) = "int"
                -> LET cv == ParseInt(arg)
                   IN  IF ~cv.ok THEN [err |-> "conversion", val |-> old]
                       ELSE setInt(t.kind, old, cv.n)
           [] simplifyKind(t.kind) \in {"float32", "float64"}
                -> LET cv == ParseFloat(arg)
                   IN  IF ~cv.ok THEN [err |-> "conversion", val |-> old]
                       ELSE [err |-> "ok",
                             val |-> IF t.kind = "float32"
                                     THEN ToFloat32(cv.f) ELSE cv.f]
           [] simplifyKind(t.kind) = "string"
                -> [err |-> "ok", val |-> arg]
           [] OTHER -> [err |-> "unsupported-kind", val |-> old]

\* stringToPrimitiveValue(arg, t): a new addressable zero value of t, set
\* from arg.
stringToPrimitiveValue(arg, t) ==
    setPrimitiveValueFromString(t, ZeroOf(t), arg, TRUE)

\* expectArgs(n, action): whether the wrapped action runs.
expectArgs(n, nargs) == nargs = n

-----------------------------------------------------------------------------
(* The record.                                                             *)

ScalarFields == {"Flag", "I8", "I16", "U8", "F32", "F64", "Address", "AuthMode"}
MapFields == {"EnvVars", "Levels", "Quota"}
SliceFields == {"Nums", "Backends"}

FieldType(f) ==
    CASE f = "Flag" -> Ty("bool")
      [] f = "I8" -> Ty("int8")
      [] f = "I16" -> Ty("int16")
      [] f = "U8" -> Ty("uint8")
      [] f = "F32" -> Ty("float32")
      [] f = "F64" -> Ty("float64")
      [] f = "Address" -> Ty("string")
      [] f = "AuthMode" -> AuthModeTy

\* The invocation record of a leaf action; first: no leaf of the tree was
\* invoked since Construct built it.
Call(name, target, nargs, a1, a2) ==
    [name |-> name, target |-> target, nargs |-> nargs, a1 |-> a1, a2 |-> a2,
     first |-> op.name \in {"none", "construct"}]

NoCall == [name |-> "none", target |-> "none", nargs |-> 0, a1 |-> << >>,
           a2 |-> << >>, first |-> FALSE]

\* A process that panicked runs no further invocation.
Alive == err # "panic"


-----------------------------------------------------------------------------
(* Leaves of a scalar field: makePrimitiveCommands.                        *)

\* <field> get: expectArgs(0, printValue(v)).
ScalarGet(f, n) ==
    /\ Alive /\ focus = f
    /\ op' = Call("get", f, n, << >>, << >>)
    /\ LET r == getPrimitiveValue(FieldType(f), rec[f], TRUE)
       IN  IF ~expectArgs(0, n) THEN err' = "arity" /\ out' = << >>
           ELSE /\ err' = r.err
                /\ out' = IF r.err = "ok" THEN <<r.text>> ELSE << >>
    /\ UNCHANGED <<focus, part, calls, rec, maps, heap, hdr, nodes, ctree, mem, walk, cname>>

\* <field> set [value]: expectArgs(1, setPrimitiveValueFromString(v, arg)).
ScalarSet(f, n, a) ==
    /\ Alive /\ focus = f
    /\ op' = Call("set", f, n, a, << >>)
    /\ \E r \in {setPrimitiveValueFromString(FieldType(f), rec[f], a, TRUE)} :
          IF ~expectArgs(1, n) THEN err' = "arity" /\ rec' = rec
          ELSE err' = r.err /\ rec' = [rec EXCEPT ![f] = r.val]
    /\ out' = << >>
    /\ UNCHANGED <<focus, part, calls, maps, heap, hdr, nodes, ctree, mem, walk, cname>>

-----------------------------------------------------------------------------
(* Leaves of a map field: makeMapCommands.                                 *)

MapType(f) ==
    CASE f = "EnvVars" -> [key |-> Ty("string"), val |-> Ty("string")]
      [] f = "Levels" -> [key |-> Ty("int8"), val |-> Ty("int8")]
      [] f = "Quota" -> [key |-> Ty("string"), val |-> Ty("uint8")]

\* A map value: nil (the zero value of the field), or its entries.
NilMap == [nil |-> TRUE, ents |-> << >>]
EmptyMap == [nil |-> FALSE, ents |-> << >>]

\* The key and value texts the map invocations draw from.
MapKeyTexts == {T_16, T_0x10, T_bogus}
MapValTexts == {T_1, T_300}

\* reflect.Value.MapIndex: the zero Value (present = FALSE) for a key the
\* map does not hold, and for every key of a nil map.
MapIndex(mv, k) ==
    IF k \in DOMAIN mv.ents THEN [present |-> TRUE, val |-> mv.ents[k]]
    ELSE [present |-> FALSE, val |-> << >>]

\* reflect.Value.SetMapIndex(key, elem): assignment to an entry of a nil
\* map panics.
SetMapIndex(mv, k, v) ==
    IF mv.nil THEN [err |-> "panic", m |-> mv]
    ELSE [err |-> "ok",
          m |-> [mv EXCEPT !.ents =
                    [x \in DOMAIN mv.ents \cup {k} |->
                        IF x = k THEN v ELSE mv.ents[x]]]]

\* reflect.Value.SetMapIndex(key, reflect.Value{}): delete(m, key), which
\* is a no-op on a nil map and on an absent key.
DeleteMapIndex(mv, k) ==
    [mv EXCEPT !.ents = [x \in DOMAIN mv.ents \ {k} |-> mv.ents[x]]]

\* printValue of the result of MapIndex: getPrimitiveValue of a value that
\* is not addressable, or of the zero Value, whose kind is Invalid.
printMapValue(t, mi) ==
    IF mi.present THEN getPrimitiveValue(t, mi.val, FALSE)
    ELSE getPrimitiveValue(Ty("invalid"), << >>, FALSE)

\* <map> get [key].
MapGet(f, n, a) ==
    /\ Alive /\ focus = f
    /\ op' = Call("map-get", f, n, a, << >>)
    /\ \E k \in {stringToPrimitiveValue(a, MapType(f).key)} :
          \E r \in {printMapValue(MapType(f).val, MapIndex(maps[f], k.val))} :
             IF ~expectArgs(1, n) THEN err' = "arity" /\ out' = << >>
             ELSE IF k.err # "ok" THEN err' = k.err /\ out' = << >>
             ELSE /\ err' = r.err
                  /\ out' = IF r.err = "ok" THEN <<r.text>> ELSE << >>
    /\ UNCHANGED <<focus, part, calls, rec, maps, heap, hdr, nodes, ctree, mem, walk, cname>>

\* <map> set [key] [value].
MapSet(f, n, a, b) ==
    /\ Alive /\ focus = f
    /\ op' = Call("map-set", f, n, a, b)
    /\ \E k \in {stringToPrimitiveValue(a, MapType(f).key)},
             v \in {stringToPrimitiveValue(b, MapType(f).val)} :
          \E r \in {SetMapIndex(maps[f], k.val, v.val)} :
             IF ~expectArgs(2, n) THEN err' = "arity" /\ maps' = maps
             ELSE IF k.err # "ok" THEN err' = k.err /\ maps' = maps
             ELSE IF v.err # "ok" THEN err' = v.err /\ maps' = maps
             ELSE err' = r.err /\ maps' = [maps EXCEPT ![f] = r.m]
    /\ out' = << >>
    /\ UNCHANGED <<focus, part, calls, rec, heap, hdr, nodes, ctree, mem, walk, cname>>

\* <map> unset [key].
MapUnset(f, n, a) ==
    /\ Alive /\ focus = f
    /\ op' = Call("map-unset", f, n, a, << >>)
    /\ \E k \in {stringToPrimitiveValue(a, MapType(f).key)} :
          IF ~expectArgs(1, n) THEN err' = "arity" /\ maps' = maps
          ELSE IF k.err # "ok" THEN err' = k.err /\ maps' = maps
          ELSE /\ err' = "ok"
               /\ maps' = [maps EXCEPT ![f] = DeleteMapIndex(maps[f], k.val)]
    /\ out' = << >>
    /\ UNCHANGED <<focus, part, calls, rec, heap, hdr, nodes, ctree, mem, walk, cname>>

-----------------------------------------------------------------------------
(* Field names and the default FieldNameConverter.                         *)

IsUpper(c) == IndexOf(UpperChars, c) > 0
ToLower(c) == IF IsUpper(c) THEN LowerChars[IndexOf(UpperChars, c)] ELSE c

\* A faulty loop: the dash is not skipped before a last uppercase rune.
RECURSIVE dashFrom_dashBeforeLast(_, _, _)
dashFrom_dashBeforeLast(arg, i, previousUppercase) ==
    IF i >= Len(arg) THEN << >>
    ELSE LET r == arg[i + 1]
             piece == IF i = 0 THEN <<ToLower(r)>>
                      ELSE IF IsUpper(r)
                      THEN (IF ~previousUppercase
                            THEN <<"-">> ELSE << >>) \o <<ToLower(r)>>
                      ELSE <<r>>
         IN  piece \o dashFrom_dashBeforeLast(arg, i + 1, IsUpper(r))

\* The loop of toLowerDashCase from rune i (0-based) on.
RECURSIVE dashFrom(_, _, _)
dashFrom(arg, i, previousUppercase) ==
    IF i >= Len(arg) THEN << >>
    ELSE LET r == arg[i + 1]
             piece == IF i = 0 THEN <<ToLower(r)>>
                      ELSE IF IsUpper(r)
                      THEN (IF ~previousUppercase /\ i # Len(arg) - 1
                            THEN <<"-">> ELSE << >>) \o <<ToLower(r)>>
                      ELSE <<r>>
         IN  piece \o dashFrom(arg, i + 1, IsUpper(r))

toLowerDashCase(arg) == dashFrom(arg, 0, FALSE)

N_Hostname == <<"H", "o", "s", "t", "n", "a", "m", "e">>
N_Port == <<"P", "o", "r", "t">>
N_BackoffIntervals == <<"B", "a", "c", "k", "o", "f", "f",
                        "I", "n", "t", "e", "r", "v", "a", "l", "s">>

T_2019 == <<"2", "0", "1", "9">>
T_10c20 == <<"1", "0", ",", "2", "0">>
T_a == <<"a">>
T_b == <<"b">>
T_7 == <<"7">>
T_2 == <<"2">>
T_5 == <<"5">>

\* A slice type; SliceTy("int") is []int.
SliceOf(t) == [kind |-> "slice", codec |-> FALSE, elem |-> t]
SliceTy(k) == SliceOf(Ty(k))
StructTy(fields) == [kind |-> "struct", codec |-> FALSE, fields |-> fields]
PtrTo(t) == [kind |-> "ptr", codec |-> FALSE, elem |-> t]

\* A struct field as reflect.StructField gives it: name, type, and the tags
\* the Config names (has: whether the struct tag has the key at all). The
\* field is exported, not embedded and does not carry the SkipTag unless
\* one of the three operators below says so.
Field(name, type, id, default) ==
    [name |-> name, type |-> type, id |-> id, default |-> default,
     skip |-> FALSE, exported |-> TRUE, anonymous |-> FALSE]
Skipped(fd) == [fd EXCEPT !.skip = TRUE]
Unexported(fd) == [fd EXCEPT !.exported = FALSE]
Embedded(fd) == [fd EXCEPT !.anonymous = TRUE]
NoTag == [has |-> FALSE, v |-> << >>]
Tag(v) == [has |-> TRUE, v |-> v]

\* type Backend struct (README).
BackendFields ==
    << Field(N_Hostname, Ty("string"), TRUE, NoTag),
       Field(N_Port, Ty("int"), FALSE, Tag(T_2019)),
       Field(N_BackoffIntervals, SliceTy("int"), FALSE, Tag(T_10c20)) >>

\* reflect.New(memberType).Elem(): the zero value of a struct, field by field.
ZeroStruct(fields) ==
    [i \in 1..Len(fields) |->
        IF fields[i].type.kind = "slice" THEN << >> ELSE ZeroOf(fields[i].type)]

-----------------------------------------------------------------------------
(* setDefaults on a struct whose fields are scalars and slices.            *)

\* strings.Split(s, ","): the pieces, at least one.
RECURSIVE Split(_, _)
Split(s, cur) ==
    IF s = << >> THEN <<cur>>
    ELSE IF Head(s) = "," THEN <<cur>> \o Split(Tail(s), << >>)
    ELSE Split(Tail(s), Append(cur, Head(s)))

\* strconv.ParseInt(si, 10, 64).
ParseInt10(s) ==
    IF s = << >> THEN [ok |-> FALSE, n |-> 0]
    ELSE LET neg == Head(s) = "-"
             body == IF Head(s) \in {"+", "-"} THEN Tail(s) ELSE s
             un == IF body = << >> THEN -1 ELSE ParseDigits(body, 10, 0)
         IN  IF un < 0 THEN [ok |-> FALSE, n |-> 0]
             ELSE [ok |-> TRUE, n |-> IF neg THEN -un ELSE un]

\* The default of one field f holding old: [err, val].
setDefaultField(f, old) ==
    IF ~f.default.has \/ f.default.v = << >> THEN [err |-> "ok", val |-> old]
    ELSE IF isPrimitive(f.type)
    THEN setPrimitiveValueFromString(f.type, old, f.default.v, TRUE)
    ELSE IF f.type.kind \in {"array", "slice"}
            /\ simplifyKind(f.type.elem.kind) = "int"
    THEN LET parts == Split(f.default.v, << >>)
         IN  IF \E i \in 1..Len(parts) : ~ParseInt10(parts[i]).ok
             THEN [err |-> "conversion", val |-> old]
             ELSE IF f.type.elem.kind # "int"
             THEN [err |-> "panic", val |-> old]   \* f.Set of a []int
             ELSE [err |-> "ok",
                   val |-> [i \in 1..Len(parts) |-> ParseInt10(parts[i]).n]]
    ELSE IF f.type.kind \in {"array", "slice"}
            /\ simplifyKind(f.type.elem.kind) = "string"
    THEN [err |-> "ok", val |-> Split(f.default.v, << >>)]
    ELSE [err |-> "unsupported-kind", val |-> old]

\* The field loop of setDefaults from field i on: [err, val].
RECURSIVE setDefaultsFrom(_, _, _)
setDefaultsFrom(fields, s, i) ==
    IF i > Len(fields) THEN [err |-> "ok", val |-> s]
    ELSE LET r == setDefaultField(fields[i], s[i])
         IN  IF r.err # "ok" THEN [err |-> r.err, val |-> s]
             ELSE setDefaultsFrom(fields, [s EXCEPT ![i] = r.val], i + 1)

setDefaults(fields, s) == setDefaultsFrom(fields, s, 1)

-----------------------------------------------------------------------------
(* Slices. A slice value is a header [arr, len, cap] over a backing array   *)
(* of the heap; arr = 0 is the nil slice. Two arrays of the field in focus *)
(* are told apart: the one the field's header points to and the one the    *)
(* element nodes of the tree were bound to by v.Index(idx) when the tree   *)
(* was built. A slice that is a field of an element is a header stored in  *)
(* the element, over an array of InnerIds: a copy of the element shares it.*)

ArrIds == {1, 2}
InnerIds == 3..(3 * (MaxItems \div 2) + 3)
NilSlice == [arr |-> 0, len |-> 0, cap |-> 0]
NoHeap == [i \in ArrIds \cup InnerIds |-> << >>]

\* The element type of a slice field: a scalar type, or a struct's fields.
IsStructSlice(f) == f = "Backends"
ElemFields(f) == BackendFields
ElemType(f) == Ty("int8")

\* The slice fields of an element whose leaves a behaviour invokes: the
\* field part, when it is a slice. Such a field is stored as a header. No
\* leaf the behaviour invokes can write into the array of another slice
\* field, which is therefore stored as the sequence of its elements.
InnerFields(f) ==
    IF IsStructSlice(f)
    THEN {i \in {part} \ {0} : ElemFields(f)[i].type.kind = "slice"}
    ELSE {}

\* The capacity of a slice that append has grown from nil to n elements.
SliceCap(n) == IF n <= 2 THEN n ELSE 4

\* An element as the heap stores it: a slice field of the item is a header
\* over the array id (the nil slice stays nil).
Stored(f, item, id) ==
    IF IsStructSlice(f)
    THEN [i \in 1..Len(ElemFields(f)) |->
            IF i \in InnerFields(f)
            THEN IF item[i] = << >> THEN NilSlice
                 ELSE [arr |-> id, len |-> Len(item[i]), cap |-> SliceCap(Len(item[i]))]
            ELSE item[i]]
    ELSE item

ZeroElem(f) ==
    IF IsStructSlice(f) THEN Stored(f, ZeroStruct(ElemFields(f)), 0)
    ELSE ZeroOf(ElemType(f))

\* The elements of a slice, as its header gives them.
View(h, hd) == IF hd.len = 0 THEN << >> ELSE SubSeq(h[hd.arr], 1, hd.len)

\* The slice of field f as the caller reads it from the record: every slice
\* field of an element is read through its header.
Seen(f, h, hd) ==
    [k \in 1..hd.len |->
        IF IsStructSlice(f)
        THEN [i \in 1..Len(ElemFields(f)) |->
                IF i \in InnerFields(f) THEN View(h, h[hd.arr][k][i])
                ELSE h[hd.arr][k][i]]
        ELSE h[hd.arr][k]]

\* The array the element nodes are bound to (0: there are none).
TreeArr(ns) == IF ns = << >> THEN 0 ELSE ns[1].arr

\* The index of the first field that has the IDTag; 0 when there is none.
IdField(fields) ==
    IF \E i \in 1..Len(fields) : fields[i].id
    THEN CHOOSE i \in 1..Len(fields) :
            fields[i].id /\ \A j \in 1..(i - 1) : ~fields[j].id
    ELSE 0

\* The type of the elements of a slice field, v.Type().Elem().
MemberType(f) == IF IsStructSlice(f) THEN StructTy(ElemFields(f)) ELSE ElemType(f)

\* A faulty keyer: the id tag is ignored and every element is keyed by its
\* position.
keyer_positional(member, s, i) == [err |-> "ok", key |-> FormatInt(i)]

\* keyer(i) of makeSliceCommands on the slice s of elements of type member
\* (0-based i): [err, key].
keyer(member, s, i) ==
    IF ~isPrimitiveKind(member.kind) /\ IdField(member.fields) # 0
    THEN LET mi == IdField(member.fields)
             r == getPrimitiveValue(member.fields[mi].type, s[i + 1][mi], TRUE)
         IN  [err |-> r.err, key |-> r.text]
    ELSE [err |-> "ok", key |-> FormatInt(i)]

\* makeSliceAccessorCommands: one node per element, whose leaves bind
\* v.Index(idx) (a slot of the array the header points to now) and idx.
\* getCommandsForValue(v.Index(idx)) builds, for every slice field of the
\* element, the nodes of that slice as its header is now (sub).
makeSliceAccessorCommands(f, h, hd) ==
    [k \in 1..hd.len |->
        [arr |-> hd.arr, idx |-> k - 1,
         sub |-> [i \in InnerFields(f) |->
                    [j \in 1..h[hd.arr][k][i].len |->
                        [arr |-> h[hd.arr][k][i].arr, idx |-> j - 1]]]]]

\* The longest slice the model lets a field grow to. A behaviour that
\* invokes the leaves of a slice inside the elements keeps the field
\* shorter, and the slices inside the elements grow to MaxLen.
LenBound(f) ==
    IF InnerFields(f) # {} THEN MaxItems \div 2
    ELSE IF IsStructSlice(f) THEN MaxItems ELSE MaxLen

\* The capacities append may give a slice it has to grow; capacities above
\* the longest slice behave as the longest does.
GrowCaps(f, hd) == (hd.len + 1)..LenBound(f)

\* reflect.Append(v, x): in place when the capacity allows, else into the
\* new array new, of capacity c. [heap, hdr].
append(h, hd, new, x, c, zero) ==
    IF hd.len < hd.cap
    THEN [heap |-> [h EXCEPT ![hd.arr][hd.len + 1] = x],
          hdr |-> [hd EXCEPT !.len = hd.len + 1]]
    ELSE LET arr == [j \in 1..c |->
                        IF j <= hd.len THEN h[hd.arr][j]
                        ELSE IF j = hd.len + 1 THEN x
                        ELSE zero]
         IN  [heap |-> [h EXCEPT ![new] = arr],
              hdr |-> [arr |-> new, len |-> hd.len + 1, cap |-> c]]

\* A faulty delete: the slice is cut by one at its end, whatever idx is.
deleteAt_dropsLast(h, hd, idx) ==
    IF idx > hd.cap \/ idx + 1 > hd.len
    THEN [err |-> "panic", heap |-> h, hdr |-> hd]
    ELSE [err |-> "ok", heap |-> h, hdr |-> [hd EXCEPT !.len = hd.len - 1]]

\* The delete leaf of the node built for index idx:
\* v.Set(reflect.AppendSlice(v.Slice(0, idx), v.Slice(idx+1, v.Len()))).
\* Slice panics when its bounds are out of order or beyond the capacity;
\* AppendSlice copies within the array. [err, heap, hdr].
deleteAt(h, hd, idx) ==
    IF idx > hd.cap \/ idx + 1 > hd.len
    THEN [err |-> "panic", heap |-> h, hdr |-> hd]
    ELSE [err |-> "ok",
          heap |-> [h EXCEPT ![hd.arr] =
                      [j \in 1..hd.cap |->
                          IF idx < j /\ j < hd.len THEN h[hd.arr][j + 1]
                          ELSE h[hd.arr][j]]],
          hdr |-> [hd EXCEPT !.len = hd.len - 1]]

-----------------------------------------------------------------------------
(* Construct: the command tree of a record. A command is [name, sub]; a     *)
(* value is a sequence of field values (struct), a sequence of elements    *)
(* (slice), [nil, to] (pointer) or a scalar. The result of every builder   *)
(* is [err, path, cmds]: path is the chain of field names errors.Wrap has  *)
(* put in front of the error, and cmds is << >> (nil) when err is not "ok".*)

L_get == <<"g", "e", "t">>
L_set == <<"s", "e", "t">>
L_dump == <<"d", "u", "m", "p">>
L_unset == <<"u", "n", "s", "e", "t">>
L_list == <<"l", "i", "s", "t">>
L_add == <<"a", "d", "d">>
L_addJson == <<"a", "d", "d", "-", "j", "s", "o", "n">>
L_delete == <<"d", "e", "l", "e", "t", "e">>
L_dumpJson == <<"d", "u", "m", "p", "-", "j", "s", "o", "n">>

Leaf(name) == [name |-> name, sub |-> << >>]
Built(cmds) == [err |-> "ok", path |-> << >>, cmds |-> cmds]
Failed(e, path) == [err |-> e, path |-> path, cmds |-> << >>]

\* Every value Construct reaches is a field of a struct behind a pointer or
\* an element of a slice, so v.CanSet() holds and set is always there.
makePrimitiveCommands == <<Leaf(L_get), Leaf(L_set)>>
makeMapCommands == <<Leaf(L_dump), Leaf(L_get), Leaf(L_set), Leaf(L_unset)>>
makeJsonDumper == Leaf(L_dumpJson)
makeSliceItemBuilders == <<Leaf(L_add), Leaf(L_addJson)>>

\* deref: follows pointers; Elem of a nil pointer is the invalid Value.
RECURSIVE deref(_, _)
deref(t, v) ==
    IF t.kind # "ptr" THEN [type |-> t, val |-> v]
    ELSE IF v.nil THEN [type |-> Ty("invalid"), val |-> 0]
    ELSE deref(t.elem, v.to)

RECURSIVE getCommandsForValue(_, _)
RECURSIVE fieldCommandsFrom(_, _, _)
RECURSIVE accessorCommandsFrom(_, _, _)

\* The loop of makeSliceAccessorCommands from element vi on (0-based): the
\* error of getCommandsForValue is dropped and the element node gets the
\* commands it returned, nil on error, followed by delete.
accessorCommandsFrom(member, s, vi) ==
    IF vi >= Len(s) THEN Built(<< >>)
    ELSE LET k == keyer(member, s, vi)
             keyCmds == getCommandsForValue(member, s[vi + 1]).cmds
             rest == accessorCommandsFrom(member, s, vi + 1)
         IN  IF k.err # "ok" THEN Failed(k.err, << >>)
             ELSE IF rest.err # "ok" THEN rest
             ELSE Built(<<[name |-> k.key, sub |-> keyCmds \o <<Leaf(L_delete)>>]>>
                        \o rest.cmds)

\* makeSliceCommands for a slice of type t holding s.
makeSliceCommands(t, s) ==
    LET member == t.elem
        primitive == isPrimitiveKind(member.kind)
        accessCmds == accessorCommandsFrom(member, s, 0)
    IN  IF ~primitive /\ member.kind # "struct"
        THEN Failed("unsupported-kind", << >>)
        ELSE IF accessCmds.err # "ok" THEN accessCmds
        ELSE Built(accessCmds.cmds \o <<Leaf(L_list)>>
                   \o (IF primitive THEN <<Leaf(L_add)>> ELSE makeSliceItemBuilders))

\* The field loop of Construct from field i on (1-based).
fieldCommandsFrom(t, v, i) ==
    IF i > Len(t.fields) THEN Built(<<makeJsonDumper>>)
    ELSE LET f == t.fields[i]
             valueCmds == getCommandsForValue(f.type, v[i])
             rest == fieldCommandsFrom(t, v, i + 1)
         IN  IF f.anonymous \/ f.skip \/ ~f.exported THEN rest
             ELSE IF valueCmds.err # "ok"
             THEN Failed(valueCmds.err, <<f.name>> \o valueCmds.path)
             ELSE IF rest.err # "ok" THEN rest
             ELSE Built(<<[name |-> toLowerDashCase(f.name), sub |-> valueCmds.cmds]>>
                        \o rest.cmds)

\* Construct(item); item is [ptr, type, val]: whether a pointer was passed,
\* and the type and the value it points to (or that was passed).
Construct(item) ==
    IF ~item.ptr \/ item.type.kind # "struct" THEN Failed("invalid-input", << >>)
    ELSE fieldCommandsFrom(item.type, item.val, 1)

\* A struct met on the way is addressable and reached through exported
\* fields only, so the struct case always applies to it.
getCommandsForValue(t, v) ==
    LET d == deref(t, v)
    IN  CASE isPrimitive(d.type) -> Built(makePrimitiveCommands)
          [] d.type.kind = "map" -> Built(makeMapCommands)
          [] d.type.kind = "struct" ->
                Construct([ptr |-> TRUE, type |-> d.type, val |-> d.val])
          [] d.type.kind \in {"slice", "array"} -> makeSliceCommands(d.type, d.val)
          [] OTHER -> Failed("unsupported-kind", << >>)

-----------------------------------------------------------------------------
(* Building a slice item from flags and from JSON: makeSliceItemBuilders.  *)

\* The flag makeSliceItemBuilderFlags declares for a field ("none": none).
FlagKind(fd) ==
    CASE simplifyKind(fd.type.kind) = "bool" -> "bool"
      [] simplifyKind(fd.type.kind) = "string" \/ fd.type.codec -> "string"
      [] simplifyKind(fd.type.kind) = "int" -> "int64"
      [] simplifyKind(fd.type.kind) \in {"float32", "float64"} -> "float64"
      [] simplifyKind(fd.type.kind) \in {"array", "slice"} ->
            (CASE simplifyKind(fd.type.elem.kind) = "int" -> "int64slice"
               [] simplifyKind(fd.type.elem.kind) = "string"
                  \/ fd.type.elem.codec -> "stringslice"
               [] OTHER -> "none")
      [] OTHER -> "none"

\* The flag of a field is named by the FieldNameConverter; the names of
\* the flags of a Backend are converted once.
BackendFlagNames ==
    [n \in {BackendFields[i].name : i \in DOMAIN BackendFields} |-> toLowerDashCase(n)]
FlagName(fd) ==
    IF fd.name \in DOMAIN BackendFlagNames THEN BackendFlagNames[fd.name]
    ELSE toLowerDashCase(fd.name)

\* ctx.Generic(flagName).(flag.Value).String() of a scalar flag.
FlagString(kind, val) ==
    CASE kind = "bool" -> FormatBool(val)
      [] kind = "int64" -> FormatInt(val)
      [] kind = "float64" -> FormatFloat(val)
      [] OTHER -> val

\* The loop over the fields of the new item from field mi on; flags maps
\* the names of the flags that are set to their values. [err, val].
RECURSIVE applyFlagsFrom(_, _, _, _)
applyFlagsFrom(fields, item, flags, mi) ==
    IF mi > Len(fields) THEN [err |-> "ok", val |-> item]
    ELSE LET fd == fields[mi]
             flagName == FlagName(fd)
             r == setPrimitiveValueFromString(fd.type, item[mi],
                     FlagString(FlagKind(fd), flags[flagName]), TRUE)
         IN  IF flagName \notin DOMAIN flags
             THEN applyFlagsFrom(fields, item, flags, mi + 1)
             ELSE IF isPrimitive(fd.type)
             THEN IF r.err # "ok" THEN [err |-> r.err, val |-> item]
                  ELSE applyFlagsFrom(fields, [item EXCEPT ![mi] = r.val],
                                      flags, mi + 1)
             ELSE IF fd.type.kind \in {"array", "slice"}
             THEN [err |-> "panic", val |-> item]  \* fieldValue.Elem() of a slice
             ELSE applyFlagsFrom(fields, item, flags, mi + 1)

\* A faulty flag-based add: ctx.NumFlags() is not looked at.
buildFromFlags_noCheck(fields, flags) ==
    LET d == setDefaults(fields, ZeroStruct(fields))
    IN  IF d.err # "ok" THEN d
        ELSE applyFlagsFrom(fields, d.val, flags, 1)

\* The action of the flag-based add up to the append: [err, val].
buildFromFlags(fields, flags) ==
    IF Cardinality(DOMAIN flags) = 0
    THEN [err |-> "no-properties", val |-> ZeroStruct(fields)]
    ELSE LET d == setDefaults(fields, ZeroStruct(fields))
         IN  IF d.err # "ok" THEN d
             ELSE applyFlagsFrom(fields, d.val, flags, 1)

\* A JSON text: malformed, or an object giving some fields (by index) a
\* JSON value [jt, v] with jt one of "string", "number", "array".
Blob(wellFormed, obj) == [wellFormed |-> wellFormed, obj |-> obj]

JsonFits(type, jv) ==
    CASE type.kind = "string" -> jv.jt = "string"
      [] simplifyKind(type.kind) = "int" -> jv.jt = "number"
      [] type.kind = "slice" -> jv.jt = "array"
      [] OTHER -> FALSE

\* json.Unmarshal(blob, reflect.New(memberType).Interface()): [err, val].
jsonUnmarshal(fields, blob) ==
    IF ~blob.wellFormed
       \/ \E i \in DOMAIN blob.obj : ~JsonFits(fields[i].type, blob.obj[i])
    THEN [err |-> "json", val |-> ZeroStruct(fields)]
    ELSE [err |-> "ok",
          val |-> [i \in 1..Len(fields) |->
                     IF i \in DOMAIN blob.obj THEN blob.obj[i].v
                     ELSE ZeroStruct(fields)[i]]]

-----------------------------------------------------------------------------
(* Leaves of a slice field: makeSliceCommands, makeSliceAccessorCommands.  *)

\* The inputs the slice invocations draw from.
\* add draws from NumTexts, set through an element node from SetTexts.
NumTexts == {T_1, T_300}
SetTexts == {T_2, T_300}
FieldTexts == {T_300}
\* add and set of a slice that is a field of an element draw from these.
InnerTexts == {T_5, T_bogus}
FlagInputs ==
    LET all == {toLowerDashCase(N_Hostname), toLowerDashCase(N_Port),
                toLowerDashCase(N_BackoffIntervals)}
        full == [n \in all |->
                   CASE n = toLowerDashCase(N_Hostname) -> T_a
                     [] n = toLowerDashCase(N_Port) -> 7
                     [] OTHER -> <<5>>]
    IN  {[n \in D |-> full[n]] :
            D \in {d \in SUBSET all : toLowerDashCase(N_BackoffIntervals) \in d
                                        => Cardinality(d) = 1}}
\* The flags of the adds in a behaviour that goes on to invoke the leaves
\* of a field of the elements: -hostname=a.
FieldFlagInputs == {[n \in {toLowerDashCase(N_Hostname)} |-> T_a]}
Blobs ==
    { Blob(FALSE, << >>),
      Blob(TRUE, [i \in {1} |-> [jt |-> "string", v |-> T_a]]),
      Blob(TRUE, [i \in {2} |-> [jt |-> "string", v |-> T_bogus]]) }

\* The capacities an append to the slice may end with.
CapChoices(f, hd) == IF hd.len < hd.cap THEN {hd.cap} ELSE GrowCaps(f, hd)
\* A slice inside an element starts from the capacity setDefaults' or the
\* flag parser's appends gave it, and append doubles a capacity it has to
\* grow.
InnerCaps(hd) ==
    IF hd.len < hd.cap THEN {hd.cap} ELSE {IF hd.cap = 0 THEN 1 ELSE 2 * hd.cap}

\* The value the node k is bound to, and its type: the element itself in a
\* slice of scalars, field fi of the element in a slice of structs.
Bound(f, k, fi) ==
    IF IsStructSlice(f) THEN heap[nodes[k].arr][nodes[k].idx + 1][fi]
    ELSE heap[nodes[k].arr][nodes[k].idx + 1]
BoundType(f, fi) == IF IsStructSlice(f) THEN ElemFields(f)[fi].type ELSE ElemType(f)

\* The get and set leaves under an element node: those of the element
\* itself in a slice of scalars (0), those of the element's scalar fields
\* in a slice of structs (getCommandsForValue(v.Index(idx)) builds them by
\* Construct over v.Index(idx).Field(i)). A behaviour invokes those of the
\* field part.
ElemLeaves(f) ==
    IF IsStructSlice(f)
    THEN {i \in {part} \ {0} : isPrimitive(ElemFields(f)[i].type)}
    ELSE {0}

\* The array that the leaves of the nodes ns a behaviour invokes can still
\* read or write besides the live one (0: none). The list, add and delete
\* leaves of the slice read its header only, so a behaviour that invokes no
\* leaf of a field of the elements (part = 0) reaches the live array alone.
RetainedOf(f, ns) == IF IsStructSlice(f) /\ part = 0 THEN 0 ELSE TreeArr(ns)
Retained(f) == RetainedOf(f, nodes)

\* The array a growing append of the field's slice allocates.
NewArr(f) == IF Retained(f) = 1 THEN 2 ELSE 1

\* The array a new slice inside an element is allocated at.
FreeId(h) ==
    CHOOSE i \in InnerIds : h[i] = << >> /\ \A j \in InnerIds : j < i => h[j] # << >>

\* The least number of a set of numbers.
Min(S) == CHOOSE x \in S : \A y \in S : x <= y

\* The heap and the nodes ns once the arrays nothing refers to any more
\* are gone (neither the field's header, nor the nodes, nor a header in a
\* slot of an array those refer to) and the arrays of the slices inside the
\* elements are numbered in the order in which the slots of the live array,
\* the slots of the retained array and the nodes refer to them: an array's
\* number is its name only. [heap, nodes].
Canon(f, h, hd, ns) ==
    IF InnerFields(f) = {}
    THEN [heap |-> [i \in DOMAIN h |->
                      IF i \in {hd.arr, RetainedOf(f, ns)} THEN h[i] ELSE << >>],
          nodes |-> ns]
    ELSE LET fi == part
             kept == RetainedOf(f, ns)
             Pos(id) ==
                 {k \in 1..(IF hd.arr = 0 THEN 0 ELSE Len(h[hd.arr])) :
                     h[hd.arr][k][fi].arr = id}
                 \cup {100 + k : k \in {j \in 1..(IF kept = 0 THEN 0 ELSE Len(h[kept])) :
                                           h[kept][j][fi].arr = id}}
                 \cup {200 + k : k \in {j \in 1..Len(ns) :
                                           /\ ns[j].sub[fi] # << >>
                                           /\ ns[j].sub[fi][1].arr = id}}
             first == [id \in InnerIds |-> IF Pos(id) = {} THEN 0 ELSE Min(Pos(id))]
             R == {id \in InnerIds : first[id] # 0}
             new == [id \in R |-> 3 + Cardinality({j \in R : first[j] < first[id]})]
             ren(x) == IF x.arr = 0 THEN x ELSE [x EXCEPT !.arr = new[x.arr]]
         IN  [heap |-> [i \in DOMAIN h |->
                          IF i \in ArrIds
                          THEN IF i \in {hd.arr, kept}
                               THEN [k \in 1..Len(h[i]) |->
                                       [h[i][k] EXCEPT ![fi] = ren(h[i][k][fi])]]
                               ELSE << >>
                          ELSE IF \E id \in R : new[id] = i
                               THEN h[CHOOSE id \in R : new[id] = i]
                               ELSE << >>],
              nodes |-> [k \in 1..Len(ns) |->
                           [ns[k] EXCEPT !.sub =
                              [i \in InnerFields(f) |->
                                  [j \in 1..Len(ns[k].sub[i]) |-> ren(ns[k].sub[i][j])]]]]]

\* The state of the slice after an invocation: the heap h, the header hd
\* and the nodes of the tree.
Settle(f, h, hd) ==
    LET c == Canon(f, h, hd, nodes)
    IN  heap' = c.heap /\ hdr' = hd /\ nodes' = c.nodes

\* The invocation leaves the slice as it is.
Keep == UNCHANGED <<heap, hdr, nodes>>

\* The heap with the array of the slice field of a new item, at id.
WithInner(f, h, item, id) ==
    IF \E i \in InnerFields(f) : item[i] # << >>
    THEN LET i == CHOOSE i \in InnerFields(f) : item[i] # << >>
         IN  [h EXCEPT ![id] = [j \in 1..SliceCap(Len(item[i])) |->
                                  IF j <= Len(item[i]) THEN item[i][j] ELSE 0]]
    ELSE h

\* What every invocation on the slice in focus leaves alone.
SliceFrame == UNCHANGED <<focus, part, calls, rec, maps, ctree, mem, walk, cname>>

\* An invocation of a leaf of a slice inside an element counts against the
\* number of such invocations a behaviour makes.
InnerFrame ==
    /\ calls < MaxCalls /\ calls' = calls + 1
    /\ UNCHANGED <<focus, part, rec, maps, ctree, mem, walk, cname>>

\* <slice> list.
SliceList(f, n) ==
    /\ Alive /\ focus = f
    /\ op' = Call("list", f, n, << >>, << >>)
    /\ IF ~expectArgs(0, n) THEN err' = "arity" /\ out' = << >>
       ELSE /\ err' = "ok"
            /\ out' = [i \in 1..hdr.len |-> keyer(MemberType(f), View(heap, hdr), i - 1).key]
    /\ Keep
    /\ SliceFrame

\* The tail of the three add leaves: v.Set(reflect.Append(v, newValue)) when
\* the item was built without error.
appendItem(f, r, c) ==
    LET id == FreeId(heap)
        a == append(WithInner(f, heap, r.val, id), hdr, NewArr(f),
                    Stored(f, r.val, id), c, ZeroElem(f))
    IN  /\ err' = r.err
        /\ IF r.err = "ok" THEN Settle(f, a.heap, a.hdr) ELSE Keep

\* <slice> add [value], the add leaf of a slice of scalars.
SliceAdd(f, n, a, c) ==
    /\ Alive /\ focus = f /\ ~IsStructSlice(f) /\ hdr.len < LenBound(f)
    /\ op' = Call("add", f, n, a, << >>)
    /\ IF ~expectArgs(1, n) THEN err' = "arity" /\ Keep
       ELSE appendItem(f, stringToPrimitiveValue(a, ElemType(f)), c)
    /\ out' = << >>
    /\ SliceFrame

\* <slice> add -attribute=value, the add leaf of a slice of structs.
SliceAddFlags(f, n, flags, c) ==
    /\ Alive /\ focus = f /\ IsStructSlice(f) /\ hdr.len < LenBound(f)
    /\ op' = Call("add-flags", f, n, flags, << >>)
    /\ IF ~expectArgs(0, n) THEN err' = "arity" /\ Keep
       ELSE appendItem(f, buildFromFlags(ElemFields(f), flags), c)
    /\ out' = << >>
    /\ SliceFrame

\* <slice> add-json [value].
SliceAddJson(f, n, blob, c) ==
    /\ Alive /\ focus = f /\ IsStructSlice(f) /\ hdr.len < LenBound(f)
    /\ op' = Call("add-json", f, n, blob, << >>)
    /\ IF ~expectArgs(1, n) THEN err' = "arity" /\ Keep
       ELSE appendItem(f, jsonUnmarshal(ElemFields(f), blob), c)
    /\ out' = << >>
    /\ SliceFrame

\* <slice> <key> [<field>] get.
ElemGet(f, k, fi, n) ==
    /\ Alive /\ focus = f /\ k \in 1..Len(nodes) /\ fi \in ElemLeaves(f)
    /\ op' = Call("elem-get", [node |-> k, fld |-> fi], n, << >>, << >>)
    /\ LET r == getPrimitiveValue(BoundType(f, fi), Bound(f, k, fi), TRUE)
       IN  IF ~expectArgs(0, n) THEN err' = "arity" /\ out' = << >>
           ELSE /\ err' = r.err
                /\ out' = IF r.err = "ok" THEN <<r.text>> ELSE << >>
    /\ Keep
    /\ SliceFrame

\* <slice> <key> [<field>] set [value].
ElemSet(f, k, fi, n, a) ==
    /\ Alive /\ focus = f /\ k \in 1..Len(nodes) /\ fi \in ElemLeaves(f)
    /\ op' = Call("elem-set", [node |-> k, fld |-> fi], n, a, << >>)
    /\ \E r \in {setPrimitiveValueFromString(BoundType(f, fi), Bound(f, k, fi), a, TRUE)} :
          LET slot == nodes[k].idx + 1
          IN  IF ~expectArgs(1, n) THEN err' = "arity" /\ Keep
              ELSE /\ err' = r.err
                   /\ heap' = IF IsStructSlice(f)
                              THEN [heap EXCEPT ![nodes[k].arr][slot][fi] = r.val]
                              ELSE [heap EXCEPT ![nodes[k].arr][slot] = r.val]
                   /\ UNCHANGED <<hdr, nodes>>
    /\ out' = << >>
    /\ SliceFrame

\* <slice> <key> delete.
ElemDelete(f, k, n) ==
    /\ Alive /\ focus = f /\ k \in 1..Len(nodes)
    /\ op' = Call("delete", [node |-> k, fld |-> 0], n, << >>, << >>)
    /\ LET r == deleteAt(heap, hdr, nodes[k].idx)
       IN  IF ~expectArgs(0, n) THEN err' = "arity" /\ Keep
           ELSE err' = r.err /\ Settle(f, r.heap, r.hdr)
    /\ out' = << >>
    /\ SliceFrame

\* The leaves of a slice that is field fi of the element of node k:
\* makeSliceCommands(v.Index(idx).Field(fi)). Its header is read from the
\* slot the node is bound to when a leaf runs, its element nodes were bound
\* when the tree was built.
InnerElem(f, fi) == ElemFields(f)[fi].type.elem
InnerAt(k, fi, j) == nodes[k].sub[fi][j]
InnerStore(f, k, fi, h, hd) ==
    Settle(f, [h EXCEPT ![nodes[k].arr][nodes[k].idx + 1][fi] = hd], hdr)

\* <slice> <key> <field> list.
FieldList(f, k, fi, n) ==
    /\ Alive /\ focus = f /\ k \in 1..Len(nodes) /\ fi \in InnerFields(f)
    /\ op' = Call("field-list", [node |-> k, fld |-> fi, at |-> 0], n, << >>, << >>)
    /\ LET hd == Bound(f, k, fi)
       IN  IF ~expectArgs(0, n) THEN err' = "arity" /\ out' = << >>
           ELSE /\ err' = "ok"
                /\ out' = [j \in 1..hd.len |->
                             keyer(InnerElem(f, fi), View(heap, hd), j - 1).key]
    /\ Keep
    /\ InnerFrame

\* <slice> <key> <field> add [value].
FieldAdd(f, k, fi, n, a, c) ==
    /\ Alive /\ focus = f /\ k \in 1..Len(nodes) /\ fi \in InnerFields(f)
    /\ Bound(f, k, fi).len < MaxLen
    /\ op' = Call("field-add", [node |-> k, fld |-> fi, at |-> 0], n, a, << >>)
    /\ \E r \in {stringToPrimitiveValue(a, InnerElem(f, fi))} :
          LET ap == append(heap, Bound(f, k, fi), FreeId(heap), r.val, c,
                           ZeroOf(InnerElem(f, fi)))
          IN  IF ~expectArgs(1, n) THEN err' = "arity" /\ Keep
              ELSE /\ err' = r.err
                   /\ IF r.err = "ok" THEN InnerStore(f, k, fi, ap.heap, ap.hdr) ELSE Keep
    /\ out' = << >>
    /\ InnerFrame

\* <slice> <key> <field> <index> get.
FieldElemGet(f, k, fi, j, n) ==
    /\ Alive /\ focus = f /\ k \in 1..Len(nodes) /\ fi \in InnerFields(f)
    /\ j \in 1..Len(nodes[k].sub[fi])
    /\ op' = Call("field-get", [node |-> k, fld |-> fi, at |-> j], n, << >>, << >>)
    /\ LET at == InnerAt(k, fi, j)
           r == getPrimitiveValue(InnerElem(f, fi), heap[at.arr][at.idx + 1], TRUE)
       IN  IF ~expectArgs(0, n) THEN err' = "arity" /\ out' = << >>
           ELSE /\ err' = r.err
                /\ out' = IF r.err = "ok" THEN <<r.text>> ELSE << >>
    /\ Keep
    /\ InnerFrame

\* <slice> <key> <field> <index> set [value].
FieldElemSet(f, k, fi, j, n, a) ==
    /\ Alive /\ focus = f /\ k \in 1..Len(nodes) /\ fi \in InnerFields(f)
    /\ j \in 1..Len(nodes[k].sub[fi])
    /\ op' = Call("field-set", [node |-> k, fld |-> fi, at |-> j], n, a, << >>)
    /\ \E at \in {InnerAt(k, fi, j)} :
          \E r \in {setPrimitiveValueFromString(InnerElem(f, fi),
                                                heap[at.arr][at.idx + 1], a, TRUE)} :
             IF ~expectArgs(1, n) THEN err' = "arity" /\ Keep
             ELSE /\ err' = r.err
                  /\ heap' = [heap EXCEPT ![at.arr][at.idx + 1] = r.val]
                  /\ UNCHANGED <<hdr, nodes>>
    /\ out' = << >>
    /\ InnerFrame

\* <slice> <key> <field> <index> delete.
FieldElemDelete(f, k, fi, j, n) ==
    /\ Alive /\ focus = f /\ k \in 1..Len(nodes) /\ fi \in InnerFields(f)
    /\ j \in 1..Len(nodes[k].sub[fi])
    /\ op' = Call("field-delete", [node |-> k, fld |-> fi, at |-> j], n, << >>, << >>)
    /\ LET r == deleteAt(heap, Bound(f, k, fi), InnerAt(k, fi, j).idx)
       IN  IF ~expectArgs(0, n) THEN err' = "arity" /\ Keep
           ELSE /\ err' = r.err
                /\ IF r.err = "ok" THEN InnerStore(f, k, fi, r.heap, r.hdr) ELSE Keep
    /\ out' = << >>
    /\ InnerFrame

\* Construct called again on the caller's record: the element nodes are
\* rebuilt from the slice as it is now. The array of the old nodes is
\* garbage from here on, and the live array is renamed 1.
Reconstruct(f) ==
    /\ Alive /\ focus = f /\ f \in SliceFields
    /\ LET h1 == [i \in DOMAIN heap |->
                    IF i \in ArrIds
                    THEN IF i = 1 /\ hdr.arr # 0 THEN heap[hdr.arr] ELSE << >>
                    ELSE heap[i]]
           hd1 == [hdr EXCEPT !.arr = IF hdr.arr = 0 THEN 0 ELSE 1]
           c == Canon(f, h1, hd1, makeSliceAccessorCommands(f, h1, hd1))
       IN  /\ heap' = c.heap
           /\ hdr' = hd1
           /\ nodes' = c.nodes
    /\ op' = Call("construct", f, 0, << >>, << >>)
    /\ err' = "ok"
    /\ out' = << >>
    /\ UNCHANGED <<focus, part, calls, rec, maps, ctree, mem, walk, cname>>

-----------------------------------------------------------------------------
(* Construct on records of other shapes than Config.                       *)

N_Address == <<"A", "d", "d", "r", "e", "s", "s">>
N_Backends == <<"B", "a", "c", "k", "e", "n", "d", "s">>
N_Workers == <<"W", "o", "r", "k", "e", "r", "s">>
N_Name == <<"N", "a", "m", "e">>
N_Done == <<"D", "o", "n", "e">>
N_Inner == <<"I", "n", "n", "e", "r">>
N_Chans == <<"C", "h", "a", "n", "s">>
N_Peer == <<"P", "e", "e", "r">>
N_EnvVars == <<"E", "n", "v", "V", "a", "r", "s">>

MapOf(k, e) == [kind |-> "map", codec |-> FALSE, key |-> k, elem |-> e]

\* type Worker struct { Name string `recli:"id"`; Done chan bool }
WorkerFields ==
    << Field(N_Name, Ty("string"), TRUE, NoTag),
       Field(N_Done, Ty("chan"), FALSE, NoTag) >>

\* The types Construct is called on: struct types, and int.
RootTypes ==
    LET address == Field(N_Address, Ty("string"), FALSE, NoTag)
        done == Field(N_Done, Ty("chan"), FALSE, NoTag)
    IN  { StructTy(<<address,
                     Field(N_EnvVars, MapOf(Ty("string"), Ty("string")), FALSE, NoTag),
                     Field(N_Backends, SliceOf(StructTy(BackendFields)), FALSE, NoTag)>>),
          StructTy(<<address, done>>),
          StructTy(<<address, Skipped(done)>>),
          StructTy(<<address, Unexported(done)>>),
          StructTy(<<address, Embedded(done)>>),
          StructTy(<<address, Field(N_Inner, StructTy(<<done>>), FALSE, NoTag)>>),
          StructTy(<<address, Field(N_Chans, SliceTy("chan"), FALSE, NoTag)>>),
          StructTy(<<address, Field(N_Peer, PtrTo(StructTy(BackendFields)), FALSE, NoTag)>>),
          StructTy(<<address,
                     Field(N_Workers, SliceOf(StructTy(WorkerFields)), FALSE, NoTag)>>),
          Ty("int") }

\* The values of a type the model passes to Construct: slices of up to
\* MaxItems elements, strings a and b, zero for every other scalar.
RECURSIVE ValuesOf(_)
RECURSIVE TuplesOf(_, _)
TuplesOf(fields, i) ==
    IF i > Len(fields) THEN {<< >>}
    ELSE {<<x>> \o rest : x \in ValuesOf(fields[i].type), rest \in TuplesOf(fields, i + 1)}
ValuesOf(t) ==
    CASE t.kind = "struct" -> TuplesOf(t.fields, 1)
      [] t.kind = "slice" ->
            IF t.elem.kind = "struct"
            THEN UNION {[1..n -> ValuesOf(t.elem)] : n \in 0..MaxItems}
            ELSE {<< >>}
      [] t.kind = "ptr" -> {[nil |-> TRUE, to |-> << >>]}
                           \cup {[nil |-> FALSE, to |-> x] : x \in ValuesOf(t.elem)}
      [] t.kind = "string" -> {T_a, T_b}
      [] t.kind = "map" -> {NilMap}
      [] OTHER -> {0}

\* What Construct is called with: a value of type t, or a pointer to one.
Items(t) == {[ptr |-> p, type |-> t, val |-> x] : p \in BOOLEAN, x \in ValuesOf(t)}

\* Construct(item) called by the embedding application on one of the items
\* above. The constructor keeps nothing from one call to the next, so a
\* behaviour makes one call.
ConstructItem ==
    /\ Alive /\ focus = "Construct" /\ op.name = "none"
    /\ \E t \in RootTypes : \E item \in Items(t) :
          /\ op' = Call("Construct", item, 0, << >>, << >>)
          /\ ctree' = Construct(item)
          /\ err' = ctree'.err
    /\ out' = << >>
    /\ UNCHANGED <<focus, part, calls, rec, maps, heap, hdr, nodes, mem, walk, cname>>

-----------------------------------------------------------------------------
(* setDefaults on a graph of records (src/utils_test.go). A record of the  *)
(* graph is a struct the caller allocated (x := &DefaultStruct{}) or a      *)
(* struct held by value inside one; it is named by <<obj, path>>, path the  *)
(* chain of field indices from the allocated struct. A pointer field holds  *)
(* 0 (nil) or the id of an allocated struct.                                *)

\* Most structs the caller allocates.
MaxObjs == 2

T_outer == <<"o", "u", "t", "e", "r">>
T_inner == <<"i", "n", "n", "e", "r">>

\* A declared struct type, by name (a struct type may refer to itself
\* through a pointer).
NamedTy(n) == [kind |-> "struct", codec |-> FALSE, name |-> n]

\* The declared struct types: DefaultStruct and Inner of the test; Lead
\* holds an Inner as its first field; Wide has a slice of a wider integer
\* kind; Pair reaches two records, or one record twice; the default of Odd
\* is not a number.
Decl(n) ==
    CASE n = "DefaultStruct" ->
            << Field(<<"A">>, Ty("string"), FALSE, Tag(T_outer)),
               Field(<<"B">>, SliceTy("int"), FALSE, Tag(T_10c20)),
               Field(<<"C">>, NamedTy("Inner"), FALSE, NoTag) >>
      [] n = "Inner" ->
            << Field(<<"A">>, Ty("string"), FALSE, Tag(T_inner)),
               Field(<<"B">>, PtrTo(NamedTy("DefaultStruct")), FALSE, NoTag) >>
      [] n = "Lead" ->
            << Field(<<"C">>, NamedTy("Inner"), FALSE, NoTag),
               Field(<<"A">>, Ty("string"), FALSE, Tag(T_outer)) >>
      [] n = "Wide" ->
            << Field(<<"A">>, Ty("string"), FALSE, Tag(T_outer)),
               Field(<<"B">>, SliceTy("int64"), FALSE, Tag(T_10c20)) >>
      [] n = "Pair" ->
            << Field(<<"L">>, PtrTo(NamedTy("DefaultStruct")), FALSE, NoTag),
               Field(<<"R">>, PtrTo(NamedTy("DefaultStruct")), FALSE, NoTag) >>
      [] n = "Odd" ->
            << Field(N_Port, Ty("int"), FALSE, Tag(T_bogus)) >>

DeclNames == {"DefaultStruct", "Inner", "Lead", "Wide", "Pair", "Odd"}

\* The types the caller allocates; an Inner is held by value only.
RootDecls == DeclNames \ {"Inner"}

\* &T{}: the zero value of a declared struct type.
RECURSIVE ZeroRecord(_)
ZeroRecord(n) ==
    [i \in 1..Len(Decl(n)) |->
        LET t == Decl(n)[i].type
        IN  CASE t.kind = "struct" -> ZeroRecord(t.name)
              [] t.kind = "ptr" -> 0
              [] t.kind = "slice" -> << >>
              [] OTHER -> ZeroOf(t)]

\* unsafe.Sizeof of a type on a 64-bit build; every kind of the model is
\* a multiple of the word, so that no field is padded.
RECURSIVE SizeOf(_)
RECURSIVE SizeFrom(_, _)
SizeOf(t) ==
    CASE t.kind = "string" -> 16
      [] t.kind = "slice" -> 24
      [] t.kind = "struct" -> SizeFrom(Decl(t.name), 1)
      [] OTHER -> 8
SizeFrom(fields, i) ==
    IF i > Len(fields) THEN 0
    ELSE SizeOf(fields[i].type) + SizeFrom(fields, i + 1)

\* The offset of the field at path inside a struct of type n.
RECURSIVE OffsetOf(_, _)
OffsetOf(n, path) ==
    IF path = << >> THEN 0
    ELSE LET fields == Decl(n)
             i == Head(path)
         IN  SizeFrom(fields, 1) - SizeFrom(fields, i)
             + (IF Len(path) = 1 THEN 0
                ELSE OffsetOf(fields[i].type.name, Tail(path)))

\* s.Addr().Pointer() of the record <<obj, path>>: the address it starts at.
Pointer(m, obj, path) == <<obj, OffsetOf(m[obj].type, path)>>

\* The field value at path inside the struct value v, and v with it replaced.
RECURSIVE FieldAt(_, _)
FieldAt(v, path) ==
    IF path = << >> THEN v ELSE FieldAt(v[Head(path)], Tail(path))

RECURSIVE WithFieldAt(_, _, _)
WithFieldAt(v, path, x) ==
    IF path = << >> THEN x
    ELSE [v EXCEPT ![Head(path)] = WithFieldAt(@, Tail(path), x)]

\* The type name of the record <<obj, path>>.
RECURSIVE TypeAt(_, _)
TypeAt(n, path) ==
    IF path = << >> THEN n
    ELSE TypeAt(Decl(n)[Head(path)].type.name, Tail(path))

\* setDefaults(tagName, data, seen), data the pointer to the record
\* <<obj, path>> of type n; root: seen == nil. st = [err, mem, seen, walk] is
\* the memory, the seen map and the records entered so far; the result is
\* st as the call leaves it.
RECURSIVE setDefaultsAt(_, _, _, _, _)
RECURSIVE setDefaultsFieldsFrom(_, _, _, _, _)
setDefaultsAt(st, obj, path, n, root) ==
    IF ~root /\ Pointer(st.mem, obj, path) \in st.seen THEN st
    ELSE setDefaultsFieldsFrom(
             [st EXCEPT !.seen = @ \cup {Pointer(st.mem, obj, path)},
                        !.walk = Append(@, <<obj, path>>)],
             obj, path, n, 1)

\* The loop over the fields of the record from field i on.
setDefaultsFieldsFrom(st, obj, path, n, i) ==
    IF i > Len(Decl(n)) THEN st
    ELSE LET fd == Decl(n)[i]
             cur == FieldAt(st.mem[obj].val, path \o <<i>>)
             \* f := deref(s.Field(i)): the struct a pointer field leads to
             isPtr == fd.type.kind = "ptr"
             fKind == IF isPtr THEN (IF cur = 0 THEN "invalid" ELSE fd.type.elem.kind)
                      ELSE fd.type.kind
             sub == IF fKind = "struct" /\ fd.exported
                    THEN IF isPtr
                         THEN setDefaultsAt(st, cur, << >>, fd.type.elem.name, FALSE)
                         ELSE setDefaultsAt(st, obj, path \o <<i>>, fd.type.name, FALSE)
                    ELSE st
             leaf == setDefaultField(fd, cur)
         IN  IF fKind = "struct" /\ fd.exported
             THEN IF sub.err # "ok" THEN sub
                  ELSE setDefaultsFieldsFrom(sub, obj, path, n, i + 1)
             ELSE IF ~fd.default.has \/ fd.default.v = << >>
             THEN setDefaultsFieldsFrom(st, obj, path, n, i + 1)
             ELSE IF fKind \in {"invalid", "struct"}
             THEN [st EXCEPT !.err = "unsupported-kind"]
             ELSE IF leaf.err # "ok" THEN [st EXCEPT !.err = leaf.err]
             ELSE IF ~fd.exported THEN [st EXCEPT !.err = "panic"]
             ELSE setDefaultsFieldsFrom(
                      [st EXCEPT !.mem[obj].val =
                                     WithFieldAt(@, path \o <<i>>, leaf.val)],
                      obj, path, n, i + 1)

\* setDefaults("default", x, nil), x the pointer to the allocated struct obj.
setDefaultsOf(m, obj) ==
    setDefaultsAt([err |-> "ok", mem |-> m, seen |-> {}, walk |-> << >>],
                  obj, << >>, m[obj].type, TRUE)

\* The pointer fields inside a struct of type n, by path.
RECURSIVE PtrPaths(_)
PtrPaths(n) ==
    UNION { LET t == Decl(n)[i].type
            IN  CASE t.kind = "ptr" -> {<<i>>}
                  [] t.kind = "struct" -> {<<i>> \o p : p \in PtrPaths(t.name)}
                  [] OTHER -> {}
            : i \in 1..Len(Decl(n)) }

\* The type name a pointer field points to.
PointeeOf(n, path) ==
    LET owner == TypeAt(n, SubSeq(path, 1, Len(path) - 1))
    IN  Decl(owner)[path[Len(path)]].type.elem.name

\* The caller builds the graph before it has the defaults set, as the test
\* does.
Building == op.name \in {"none", "new", "link"}

\* x := &T{}.
NewRecord(n) ==
    /\ Alive /\ focus = "Defaults" /\ Building /\ Len(mem) < MaxObjs
    /\ mem' = Append(mem, [type |-> n, val |-> ZeroRecord(n)])
    /\ op' = Call("new", n, 0, << >>, << >>)
    /\ err' = "ok"
    /\ UNCHANGED <<focus, part, calls, rec, maps, heap, hdr, nodes, out, ctree, walk, cname>>

\* x.C.B = y: the caller points a pointer field of x at an allocated struct.
Link(x, path, y) ==
    /\ Alive /\ focus = "Defaults" /\ Building
    /\ x \in 1..Len(mem) /\ y \in 1..Len(mem)
    /\ path \in PtrPaths(mem[x].type)
    /\ mem[y].type = PointeeOf(mem[x].type, path)
    /\ mem' = [mem EXCEPT ![x].val = WithFieldAt(@, path, y)]
    /\ op' = Call("link", x, 0, << >>, << >>)
    /\ err' = "ok"
    /\ UNCHANGED <<focus, part, calls, rec, maps, heap, hdr, nodes, out, ctree, walk, cname>>

\* err := setDefaults("default", x, nil).
ApplyDefaults(x) ==
    /\ Alive /\ focus = "Defaults"
    /\ x \in 1..Len(mem)
    /\ \E r \in {setDefaultsOf(mem, x)} :
          /\ mem' = r.mem
          /\ walk' = r.walk
          /\ err' = r.err
    /\ op' = Call("setDefaults", x, 0, << >>, << >>)
    /\ UNCHANGED <<focus, part, calls, rec, maps, heap, hdr, nodes, out, ctree, cname>>

-----------------------------------------------------------------------------
(* The default FieldNameConverter applied to a field name.                 *)

\* Longest name the converter is applied to, README's names aside.
MaxName == 4

N_ThreadingOptions == <<"T", "h", "r", "e", "a", "d", "i", "n", "g",
                        "O", "p", "t", "i", "o", "n", "s">>

\* The letters the names are made of.
NameChars == {"A", "B", "a", "b"}

\* The names: those of README's Config, and every name of up to MaxName
\* letters.
FieldNames ==
    {N_ThreadingOptions, N_EnvVars, N_Address, N_Backends}
        \cup UNION {[1..n -> NameChars] : n \in 1..MaxName}

\* c.cfg.FieldNameConverter(f.Name), the Default configuration. The
\* converter keeps nothing from one call to the next, so a behaviour makes
\* one call.
ConvertName(name) ==
    /\ Alive /\ focus = "Names" /\ op.name = "none"
    /\ op' = Call("toLowerDashCase", name, 0, << >>, << >>)
    /\ cname' = toLowerDashCase(name)
    /\ err' = "ok"
    /\ UNCHANGED <<focus, part, calls, rec, maps, heap, hdr, nodes, out, ctree, mem, walk>>

-----------------------------------------------------------------------------
Init ==
    /\ focus \in ScalarFields \cup MapFields \cup SliceFields
                \cup {"Construct", "Defaults", "Names"}
    /\ calls = 0
    /\ part \in (IF focus \in SliceFields /\ IsStructSlice(focus)
                 THEN 0..Len(ElemFields(focus)) ELSE {0})
    /\ rec = [f \in ScalarFields |-> ZeroOf(FieldType(f))]
    /\ maps \in [MapFields -> {NilMap, EmptyMap}]
    /\ \A f \in MapFields : f # focus => maps[f] = NilMap
    /\ heap = NoHeap
    /\ hdr = NilSlice
    /\ nodes = << >>
    /\ op = NoCall
    /\ err = "none"
    /\ out = << >>
    /\ ctree = Built(<< >>)
    /\ mem = << >>
    /\ walk = << >>
    /\ cname = << >>

\* The invocations of a leaf that expects n arguments drawn from S: every
\* argument list of that length, and one list of each other length.
ArgLists(n, S) ==
    {<<n, a>> : a \in S} \cup {<<k, CHOOSE a \in S : TRUE>> : k \in (0..MaxArgs) \ {n}}

\* The fields among S whose leaves a behaviour invokes.
Focused(S) == S \cap {focus}

Next ==
    \/ \E f \in Focused(ScalarFields), n \in 0..MaxArgs : ScalarGet(f, n)
    \/ \E f \in Focused(ScalarFields), na \in ArgLists(1, Texts) : ScalarSet(f, na[1], na[2])
    \/ \E f \in Focused(MapFields), na \in ArgLists(1, MapKeyTexts) : MapGet(f, na[1], na[2])
    \/ \E f \in Focused(MapFields), na \in ArgLists(2, MapKeyTexts \X MapValTexts) :
          MapSet(f, na[1], na[2][1], na[2][2])
    \/ \E f \in Focused(MapFields), na \in ArgLists(1, MapKeyTexts) : MapUnset(f, na[1], na[2])
    \/ \E f \in Focused(SliceFields), n \in 0..MaxArgs : SliceList(f, n)
    \/ \E f \in Focused(SliceFields), na \in ArgLists(1, NumTexts) :
          \E c \in CapChoices(f, hdr) : SliceAdd(f, na[1], na[2], c)
    \/ \E f \in Focused(SliceFields) :
          \E na \in (IF part = 0 THEN ArgLists(0, FlagInputs)
                     ELSE {<<0, flags>> : flags \in FieldFlagInputs}) :
             \E c \in CapChoices(f, hdr) : SliceAddFlags(f, na[1], na[2], c)
    \/ \E f \in Focused(SliceFields), na \in ArgLists(1, Blobs) :
          \E c \in CapChoices(f, hdr) : part = 0 /\ SliceAddJson(f, na[1], na[2], c)
    \/ \E f \in Focused(SliceFields), k \in 1..Len(nodes), n \in 0..MaxArgs : ElemGet(f, k, part, n)
    \/ \E f \in Focused(SliceFields), k \in 1..Len(nodes) :
          \E na \in ArgLists(1, IF IsStructSlice(f) THEN FieldTexts ELSE SetTexts) :
             ElemSet(f, k, part, na[1], na[2])
    \/ \E f \in Focused(SliceFields), k \in 1..Len(nodes), n \in 0..MaxArgs : ElemDelete(f, k, n)
    \/ \E f \in Focused(SliceFields), k \in 1..Len(nodes), n \in 0..MaxArgs :
          FieldList(f, k, part, n)
    \/ \E f \in Focused(SliceFields), k \in 1..Len(nodes), na \in ArgLists(1, InnerTexts) :
          \E c \in (IF part \in InnerFields(f) THEN InnerCaps(Bound(f, k, part))
                    ELSE {}) :
             FieldAdd(f, k, part, na[1], na[2], c)
    \/ \E f \in Focused(SliceFields), k \in 1..Len(nodes), j \in 1..MaxLen :
          FieldElemGet(f, k, part, j, 0)
    \/ \E f \in Focused(SliceFields), k \in 1..Len(nodes), j \in 1..MaxLen, a \in InnerTexts :
          FieldElemSet(f, k, part, j, 1, a)
    \/ \E f \in Focused(SliceFields), k \in 1..Len(nodes), j \in 1..MaxLen :
          FieldElemDelete(f, k, part, j, 0)
    \/ \E f \in Focused(SliceFields) : Reconstruct(f)
    \/ ConstructItem
    \/ \E n \in (IF focus = "Defaults" THEN RootDecls ELSE {}) : NewRecord(n)
    \/ \E x \in 1..Len(mem), y \in 1..Len(mem) :
          \E path \in UNION {PtrPaths(n) : n \in DeclNames} : Link(x, path, y)
    \/ \E x \in 1..Len(mem) : ApplyDefaults(x)
    \/ \E name \in (IF focus = "Names" THEN FieldNames ELSE {}) : ConvertName(name)

Spec == Init /\ [][Next]_vars

-----------------------------------------------------------------------------
(* Properties. Each is stated over the variables above; op, err and out    *)
(* are the last invocation, what it returned and what it printed.          *)

\* The text fmt prints for the value the text arg denotes in type t.
TextOf(t, arg) ==
    IF t.codec THEN arg
    ELSE CASE simplifyKind(t.kind) = "bool" -> FormatBool(ParseBool(arg).b)
           [] simplifyKind(t.kind) = "int" -> FormatInt(ParseInt(arg).n)
           [] t.kind \in {"float32", "float64"} -> FormatFloat(ParseFloat(arg).f)
           [] OTHER -> arg

\* Whether the text arg denotes a value of the scalar type t.
Convertible(t, arg) ==
    IF t.codec THEN arg \in {T_static, T_ldap}
    ELSE CASE simplifyKind(t.kind) = "bool" -> ParseBool(arg).ok
           [] t.kind \in SignedKinds ->
                ParseInt(arg).ok /\ ~OverflowInt(Bits(t.kind), ParseInt(arg).n)
           [] t.kind = "uint8" ->
                ParseInt(arg).ok /\ ParseInt(arg).n \in 0..255
           [] t.kind \in {"float32", "float64"} -> ParseFloat(arg).ok
           [] t.kind = "string" -> TRUE
           [] OTHER -> FALSE

\* The value of type t the text arg denotes, as a map key or element.
ValueOf(t, arg) == IF simplifyKind(t.kind) = "int" THEN ParseInt(arg).n ELSE arg

\* s without its element at position i (1-based).
RemoveAt(s, i) == SubSeq(s, 1, i - 1) \o SubSeq(s, i + 1, Len(s))

\* How often x occurs in s.
Count(s, x) == Cardinality({i \in 1..Len(s) : s[i] = x})

\* The slice of the field in focus as the caller reads it.
Caller == Seen(focus, heap, hdr)

\* C1: a get right after a successful set of a scalar field prints the text
\* of the value that was set, for every scalar kind and for text-codec types.
C1_GetAfterSetPrintsValue ==
    [][(focus \in ScalarFields /\ op.name = "set" /\ err = "ok"
        /\ op'.name = "get" /\ op'.nargs = 0)
       => (err' = "ok" /\ out' = <<TextOf(FieldType(focus), op.a1)>>)]_vars

\* C2: a successful set through the node of a slice element is visible in
\* the caller's slice, whatever leaves were invoked on the tree before: the
\* element, a field of it, or an element of a slice inside it holds the
\* value that was set.
C2_ElementSetIsVisibleToCaller ==
    /\ (op.name = "elem-set" /\ op.nargs = 1 /\ err = "ok")
       => \E i \in 1..Len(Caller) :
             (IF IsStructSlice(focus) THEN Caller[i][op.target.fld] ELSE Caller[i])
                 = ValueOf(BoundType(focus, op.target.fld), op.a1)
    /\ (op.name = "field-set" /\ op.nargs = 1 /\ err = "ok")
       => \E i \in 1..Len(Caller) :
             \E j \in 1..Len(Caller[i][op.target.fld]) :
                Caller[i][op.target.fld][j]
                    = ValueOf(InnerElem(focus, op.target.fld), op.a1)

\* C3: the first delete on a freshly built tree succeeds and removes exactly
\* the element of its node, keeping the others in order; so it is in the
\* field's slice and in a slice inside one of its elements.
C3_FirstDeleteRemovesItsElement ==
    [][/\ (op'.name = "delete" /\ op'.first /\ op'.nargs = 0)
          => (/\ err' = "ok"
              /\ Seen(focus, heap', hdr')
                    = RemoveAt(Caller, nodes[op'.target.node].idx + 1)
              /\ Len(Seen(focus, heap', hdr')) = Len(Caller) - 1)
       /\ (op'.name = "field-delete" /\ op'.first /\ op'.nargs = 0)
          => (/\ err' = "ok"
              /\ Seen(focus, heap', hdr')
                    = [Caller EXCEPT ![op'.target.node][op'.target.fld] =
                          RemoveAt(@, op'.target.at)])]_vars

\* A first delete of the middle one of three elements has succeeded.
C3_DeletedTheMiddleOfThree ==
    /\ op.name = "delete" /\ op.first /\ err = "ok"
    /\ op.target.node = 2 /\ hdr.len = 2

\* The key of the element the last add was given: its position in a slice
\* of scalars, its id field in a slice of structs.
AddedKey ==
    CASE op.name = "add" -> FormatInt(hdr.len - 1)
      [] op.name = "field-add" ->
            FormatInt(Bound(focus, op.target.node, op.target.fld).len - 1)
      [] op.name = "add-flags" ->
            IF toLowerDashCase(N_Hostname) \in DOMAIN op.a1
            THEN op.a1[toLowerDashCase(N_Hostname)] ELSE << >>
      [] op.name = "add-json" ->
            IF 1 \in DOMAIN op.a1.obj THEN op.a1.obj[1].v ELSE << >>

\* A list right after a successful add to the same slice.
ListAfterAdd ==
    /\ focus \in SliceFields /\ err = "ok" /\ op'.nargs = 0
    /\ \/ op.name \in {"add", "add-flags", "add-json"} /\ op'.name = "list"
       \/ /\ op.name = "field-add" /\ op'.name = "field-list"
          /\ op'.target.node = op.target.node

\* The slice the last add appended to, as its list leaf reads it.
AddedTo ==
    IF op.name = "field-add"
    THEN View(heap, Bound(focus, op.target.node, op.target.fld))
    ELSE Caller

\* C4 as stated: a list right after a successful add prints the key of the
\* added element exactly once.
C4_ListPrintsAddedKeyOnce ==
    [][ListAfterAdd => Count(out', AddedKey) = 1]_vars

\* C4, amended: a list right after a successful add prints one key for each
\* element, the last being the key of the added element; that key is printed
\* exactly once when no earlier element has the same id.
C4_ListPrintsAddedKeyLast ==
    [][ListAfterAdd
       => (/\ err' = "ok"
           /\ Len(out') = Len(AddedTo)
           /\ out'[Len(out')] = AddedKey
           /\ (IsStructSlice(focus) /\ op.name # "field-add"
               /\ \E i \in 1..(Len(Caller) - 1) :
                     Caller[i][IdField(ElemFields(focus))] = AddedKey)
              \/ Count(out', AddedKey) = 1)]_vars

\* A list has printed the same id twice.
C4_ListedTwoEqualIds ==
    /\ focus = "Backends" /\ op.name = "list" /\ err = "ok"
    /\ Len(out) = 2 /\ out[1] = out[2] /\ out[1] = T_a

\* A set of the map in focus with a key and a value of the map's kinds.
MapSetOf(o) ==
    /\ o.name = "map-set" /\ o.nargs = 2
    /\ Convertible(MapType(focus).key, o.a1)
    /\ Convertible(MapType(focus).val, o.a2)

\* C5: a map set with a key and a value of the map's kinds puts the value
\* under the key and leaves the other entries alone, and a get of that key
\* right after it prints the value.
C5_MapSetThenGetPrintsValue ==
    [][/\ (focus \in MapFields /\ MapSetOf(op'))
          => LET k == ValueOf(MapType(focus).key, op'.a1)
             IN  /\ err' = "ok"
                 /\ k \in DOMAIN maps'[focus].ents
                 /\ maps'[focus].ents[k] = ValueOf(MapType(focus).val, op'.a2)
                 /\ \A x \in DOMAIN maps[focus].ents \ {k} :
                       /\ x \in DOMAIN maps'[focus].ents
                       /\ maps'[focus].ents[x] = maps[focus].ents[x]
       /\ (/\ focus \in MapFields /\ MapSetOf(op)
           /\ op'.name = "map-get" /\ op'.nargs = 1
           /\ ValueOf(MapType(focus).key, op'.a1) = ValueOf(MapType(focus).key, op.a1))
          => (err' = "ok" /\ out' = <<TextOf(MapType(focus).val, op.a2)>>)]_vars

\* C6: a map get of a key the map does not hold returns no error and hands
\* a not-found indication to the printer.
C6_MapGetOfAbsentKeySucceeds ==
    (/\ focus \in MapFields /\ op.name = "map-get" /\ op.nargs = 1
     /\ Convertible(MapType(focus).key, op.a1)
     /\ ValueOf(MapType(focus).key, op.a1) \notin DOMAIN maps[focus].ents)
    => (err = "ok" /\ out # << >>)

\* The element a flag-based add is to append: the value of the flag for a
\* field whose flag is set, the declared default for every other field.
FlagItem(flags) ==
    [i \in 1..Len(BackendFields) |->
        IF FlagName(BackendFields[i]) \in DOMAIN flags
        THEN flags[FlagName(BackendFields[i])]
        ELSE CASE i = 1 -> << >>
               [] i = 2 -> 2019
               [] OTHER -> <<10, 20>>]

\* C7: a flag-based add with at least one flag set appends one element, in
\* which a field holds its flag's value if the flag is set and its default
\* otherwise.
C7_FlagAddAppendsFlagsOverDefaults ==
    [][(op'.name = "add-flags" /\ op'.nargs = 0 /\ DOMAIN op'.a1 # {})
       => (err' = "ok" /\ Seen(focus, heap', hdr') = Append(Caller, FlagItem(op'.a1)))]_vars

\* C8: a flag-based add with no flag set returns the no-properties error
\* and leaves the slice as it was.
C8_FlagAddWithoutFlagsAppendsNothing ==
    [][(op'.name = "add-flags" /\ op'.nargs = 0 /\ DOMAIN op'.a1 = {})
       => (err' = "no-properties" /\ Seen(focus, heap', hdr') = Caller)]_vars

\* A flag-based add with no flag set was refused on a slice that has an
\* element.
C8_RefusedOnNonEmptySlice ==
    /\ op.name = "add-flags" /\ op.nargs = 0 /\ DOMAIN op.a1 = {}
    /\ err = "no-properties" /\ hdr.len >= 1

\* The errors a leaf action returns.
LeafErrors == {"arity", "conversion", "marshal", "unsupported-kind",
               "no-properties", "json"}

\* C9: a leaf invocation that returns an error leaves every field of the
\* caller's record as it was.
C9_ErrorLeavesRecordUnchanged ==
    [][(op'.name \notin {"construct", "Construct"} /\ err' \in LeafErrors)
       => (rec' = rec /\ maps' = maps /\ Seen(focus, heap', hdr') = Caller)]_vars

\* A set that overflows its field was refused after an earlier set had
\* given the field a value.
C9_FailedSetOnSetField ==
    /\ focus = "I8" /\ op.name = "set" /\ op.nargs = 1 /\ err = "conversion"
    /\ rec["I8"] # 0

\* Whether a value of type t that Construct reaches holds a visible field,
\* or an element, of a shape no command can be built for.
RECURSIVE HasUnsupportedShape(_, _)
HasUnsupportedShape(t, v) ==
    LET d == deref(t, v)
    IN  CASE isPrimitive(d.type) \/ d.type.kind = "map" -> FALSE
          [] d.type.kind = "struct" ->
                \E i \in 1..Len(d.type.fields) :
                    /\ ~d.type.fields[i].skip
                    /\ d.type.fields[i].exported
                    /\ ~d.type.fields[i].anonymous
                    /\ HasUnsupportedShape(d.type.fields[i].type, d.val[i])
          [] d.type.kind = "slice" ->
                \/ ~(isPrimitiveKind(d.type.elem.kind) \/ d.type.elem.kind = "struct")
                \/ \E i \in 1..Len(d.val) : HasUnsupportedShape(d.type.elem, d.val[i])
          [] OTHER -> TRUE

\* C10: Construct on a record with a reachable field of an unsupported
\* shape, a field of a slice element included, returns an error that names
\* a field, and no commands.
C10_UnsupportedShapeFailsConstruct ==
    (/\ op.name = "Construct" /\ op.target.ptr /\ op.target.type.kind = "struct"
     /\ HasUnsupportedShape(op.target.type, op.target.val))
    => (err # "ok" /\ ctree.path # << >> /\ ctree.cmds = << >>)


\* The structs held by value inside a struct of type n, itself included,
\* by path.
RECURSIVE SubRecords(_)
SubRecords(n) ==
    {<< >>} \cup
    UNION { LET t == Decl(n)[i].type
            IN  IF t.kind = "struct"
                THEN {<<i>> \o p : p \in SubRecords(t.name)} ELSE {}
            : i \in 1..Len(Decl(n)) }

\* The allocated structs that pointers lead to from those of S.
PointedFrom(m, S) ==
    LET RECURSIVE Close(_)
        Close(T) ==
            LET next == T \cup UNION {{FieldAt(m[o].val, p) :
                                          p \in PtrPaths(m[o].type)} \ {0}
                                      : o \in T}
            IN  IF next = T THEN T ELSE Close(next)
    IN  Close(S)

\* The distinct records reachable from the allocated struct x.
Reachable(m, x) ==
    UNION {{<<o, p>> : p \in SubRecords(m[o].type)} : o \in PointedFrom(m, {x})}

\* The fields of the record r that declare a default and are no records.
TaggedLeaves(m, r) ==
    LET fields == Decl(TypeAt(m[r[1]].type, r[2]))
    IN  {i \in 1..Len(fields) :
            fields[i].default.has /\ fields[i].type.kind \notin {"struct", "ptr"}}

\* Whether the declared default of a field is a text of the field's kind.
DefaultParses(fd) ==
    CASE fd.type.kind = "string" -> TRUE
      [] fd.type.kind = "slice" ->
            LET parts == Split(fd.default.v, << >>)
            IN  \A k \in 1..Len(parts) : ParseInt10(parts[k]).ok
      [] OTHER -> ParseInt(fd.default.v).ok

\* The value a declared default stands for.
DeclaredDefault(fd) ==
    CASE fd.type.kind = "string" -> fd.default.v
      [] fd.type.kind = "slice" ->
            LET parts == Split(fd.default.v, << >>)
            IN  [k \in 1..Len(parts) |-> ParseInt10(parts[k]).n]
      [] OTHER -> ParseInt(fd.default.v).n

\* C11: setDefaults on any finite graph of records, cyclic ones included,
\* returns, and returns success when every default declared by a record
\* reachable from the root parses.
C11_DefaultsReturnSuccess ==
    (/\ op.name = "setDefaults"
     /\ \A r \in Reachable(mem, op.target) : \A i \in TaggedLeaves(mem, r) :
           DefaultParses(Decl(TypeAt(mem[r[1]].type, r[2]))[i]))
    => err = "ok"

\* C12: after setDefaults returned success on a root, every field that
\* declares a default, of every distinct record reachable from the root
\* (by value at any field position, or through pointers), holds that
\* default, and the fields of each such record were gone through once.
C12_EveryReachableRecordDefaultedOnce ==
    (op.name = "setDefaults" /\ err = "ok")
    => \A r \in Reachable(mem, op.target) :
          /\ Count(walk, r) = 1
          /\ \A i \in TaggedLeaves(mem, r) :
                FieldAt(mem[r[1]].val, r[2] \o <<i>>)
                    = DeclaredDefault(Decl(TypeAt(mem[r[1]].type, r[2]))[i])

\* Whether the names of the commands of cmds are pairwise distinct, and so
\* at every level below them.
RECURSIVE SiblingsDistinct(_)
SiblingsDistinct(cmds) ==
    /\ \A i, j \in 1..Len(cmds) : i # j => cmds[i].name # cmds[j].name
    /\ \A i \in 1..Len(cmds) : SiblingsDistinct(cmds[i].sub)

\* C13: in every tree Construct returns, the names of sibling commands are
\* pairwise distinct at every level: field nodes with the dump-json leaf, and
\* the element nodes of a slice with its list and add leaves.
C13_SiblingNamesDistinct ==
    (op.name = "Construct" /\ err = "ok") => SiblingsDistinct(ctree.cmds)

\* The integers a field of an integer kind can hold.
IntRange(k) ==
    CASE k = "int8" -> -128..127
      [] k = "int16" -> -32768..32767
      [] k = "uint8" -> 0..255

\* C14: a set of an integer field, signed or unsigned, whose text parses to
\* an integer outside the range of the field's width returns a conversion
\* error and the field keeps the value it had.
C14_OutOfRangeSetIsRejected ==
    [][(/\ focus \in {"I8", "I16", "U8"}
        /\ op'.name = "set" /\ op'.nargs = 1
        /\ ParseInt(op'.a1).ok
        /\ ParseInt(op'.a1).n \notin IntRange(FieldType(focus).kind))
       => (err' = "conversion" /\ rec'[focus] = rec[focus])]_vars

\* The start (1-based) of the run of capitals a name ends in; Len + 1 when
\* the name does not end in a capital.
RunStart(name) ==
    CHOOSE s \in 1..(Len(name) + 1) :
        /\ \A i \in s..Len(name) : IsUpper(name[i])
        /\ s > 1 => ~IsUpper(name[s - 1])

\* The runes toLowerDashCase is to give for rune i (1-based) of a name: the
\* rune in lower case, after a dash when it is a capital that follows a rune
\* that is no capital and is not the last rune.
Piece(name, i) ==
    IF i > 1 /\ IsUpper(name[i]) /\ ~IsUpper(name[i - 1]) /\ i # Len(name)
    THEN <<"-", ToLower(name[i])>>
    ELSE <<ToLower(name[i])>>

RECURSIVE Flatten(_)
Flatten(ss) == IF ss = << >> THEN << >> ELSE Head(ss) \o Flatten(Tail(ss))

\* C15 as stated: README's names come out as lower case words joined by
\* single dashes, and a name that ends in a run of one or more capitals
\* gets no dash before that run.
C15_NoDashBeforeTrailingCapitals ==
    (op.name = "toLowerDashCase")
    => (/\ op.target = N_ThreadingOptions
            => cname = <<"t", "h", "r", "e", "a", "d", "i", "n", "g", "-",
                         "o", "p", "t", "i", "o", "n", "s">>
        /\ op.target = N_EnvVars
            => cname = <<"e", "n", "v", "-", "v", "a", "r", "s">>
        /\ LET s == RunStart(op.target)
               run == Len(op.target) + 1 - s
           IN  (run >= 1 /\ s > 1) => cname[Len(cname) - run] # "-")

\* C15: the converted name is the name in lower case with one dash before
\* every capital that follows a rune that is no capital and is not the last
\* rune of the name: only a capital that is the last rune is taken for a
\* unit suffix.
C15_DashBeforeInnerCapitalsOnly ==
    (op.name = "toLowerDashCase")
    => cname = Flatten([i \in 1..Len(op.target) |-> Piece(op.target, i)])

\* A name that ends in two capitals after a small letter was converted,
\* and the dash is there before the two.
C15_ConvertedTrailingPair ==
    /\ op.name = "toLowerDashCase" /\ Len(op.target) >= 3
    /\ RunStart(op.target) = Len(op.target) - 1
    /\ cname[Len(cname) - 2] = "-"

\* C16: on one tree, after the delete leaf of one element has run, the
\* delete leaf of another element, still in the slice, succeeds and removes
\* the element its node was built for, and no other.
C16_SecondDeleteRemovesItsElement ==
    [][(/\ op.name = "delete" /\ op.first /\ op.nargs = 0 /\ err = "ok"
        /\ op'.name = "delete" /\ op'.nargs = 0
        /\ op'.target.node # op.target.node)
       => LET shift == IF op.target.node < op'.target.node THEN 1 ELSE 0
              pos == nodes[op'.target.node].idx + 1 - shift
          IN  /\ err' = "ok"
              /\ Seen(focus, heap', hdr') = RemoveAt(Caller, pos)]_vars

=============================================================================
